---- MODULE Spec2Model ----
(***************************************************************************)
(* WayraFrost backend: the frost prediction pipeline of api_v2.py (the     *)
(* per-location history store, the lag feature synthesis, the geofence)    *)
(* and the SMS alert rendering of sms_service.py.                          *)
(*                                                                         *)
(* Requests are handled by worker threads (Flask's development server is   *)
(* threaded); a handler is cut into steps at its accesses to the shared    *)
(* dictionary weather_history and to the deques it holds.                  *)
(***************************************************************************)
EXTENDS Integers, Sequences, FiniteSets, TLC

\* ------------------------------------------------------------- bounds
\* Requests handled in a run of Spec, by either worker thread.
MaxRequests == 2
\* Requests of a run of Spec that leave the common case: another location,
\* a provider failure, a reading with a field left out.
MaxDeviations == 1
\* Requests handled in a run of SpecLong.
MaxSteady == 26
\* Alerts sent in a run of SpecSMS.
MaxAlerts == 1
\* Requests a client sends per hour: the clock readings of one hour.
PollsPerHour == 2
\* Calls of the weather service in a run of SpecCache.
MaxCalls == 3
\* Minutes of wall-clock time in a run of SpecCache.
MaxMinutes == 11
\* Minutes between two readings of the wall clock in a run of SpecCache.
TickMinutes == 5

\* ------------------------------------------------- program constants
HistoryMaxLen == 24
DefaultHumidity == 50
DefaultRadiation == 300
NightRadinf == 320
DefaultWindSpeed == 0
DefaultWindDirection == 180
ValidRadiusKm == 50
SmsSoftLimit == 160
SmsHardCeiling == 1600
\* weather_service.py line 23: cache_duration, in minutes.
CacheMinutes == 10
\* Python's None, as a number no reading, index or feature takes.
None == -1000

Workers == {"w1", "w2"}

\* ---------------------------------------------------------- helpers
\* dict.get(k, default): the default only when the key is absent.
Get(d, k, default) == IF k \in DOMAIN d THEN d[k] ELSE default

Abs(x) == IF x < 0 THEN -x ELSE x

\* seq[i] with Python's negative indices (i = -1 is the last element).
PyIndex(seq, i) == IF i < 0 THEN seq[Len(seq) + i + 1] ELSE seq[i + 1]

\* ------------------------------------------------------- locations
\* Coordinates in units of 0.00001 degree; dist is calculate_distance from
\* the station, in whole km, computed with the source's haversine formula.
StationLoc == [name |-> "Huayao", lat |-> -1203830, lon |-> -7532280, dist |-> 0]
NearLoc == [name |-> "HuayaoNear", lat |-> -1203832, lon |-> -7532281, dist |-> 0]
HuancayoLoc == [name |-> "Huancayo", lat |-> -1206530, lon |-> -7520490, dist |-> 13]
PunoLoc == [name |-> "Puno", lat |-> -1584020, lon |-> -7002190, dist |-> 711]
\* A point on the circle of 50 km around the station (due north of it), and
\* one a kilometre beyond.
EdgeLoc == [name |-> "Edge", lat |-> -1158864, lon |-> -7532280, dist |-> 50]
BeyondLoc == [name |-> "Beyond", lat |-> -1157965, lon |-> -7532280, dist |-> 51]
\* Latitude and longitude 0: a request the handler takes as carrying no
\* coordinates ("not latitude").
NullLoc == [name |-> "Null", lat |-> 0, lon |-> 0, dist |-> 8446]

Locations == {StationLoc, NearLoc, HuancayoLoc, PunoLoc, EdgeLoc, BeyondLoc, NullLoc}

\* Four digits, zero padded.
Pad4(n) ==
    (IF n < 10 THEN "000" ELSE IF n < 100 THEN "00" ELSE IF n < 1000 THEN "0" ELSE "")
        \o ToString(n)

\* f"{x:.4f}" of a coordinate given in units of 0.00001 degree.
Fmt4(x) ==
    LET q == (Abs(x) + 5) \div 10
    IN (IF x < 0 THEN "-" ELSE "") \o ToString(q \div 10000) \o "." \o Pad4(q % 10000)

get_location_key(lat, lon) == Fmt4(lat) \o "_" \o Fmt4(lon)

KeyOf(loc) == get_location_key(loc.lat, loc.lon)

Keys == {KeyOf(loc) : loc \in Locations}

\* A variant of validate_location with a radius that takes in the whole country.
validate_location_countrywide(loc) == loc.dist <= 20 * ValidRadiusKm

\* A variant of validate_location whose radius is exclusive.
validate_location_exclusive(loc) == loc.dist < ValidRadiusKm

\* validate_location: is_valid.
validate_location(loc) == loc.dist <= ValidRadiusKm

\* validate_location: message (lines 80-88), without the figures it quotes.
validation_message(loc) ==
    IF validate_location(loc) THEN "Ubicacion valida"
    ELSE "Prediccion no disponible para esta ubicacion"

\* ------------------------------------------------ weather provider
Directions == <<0, 90, 180, 270>>

\* np.sin(np.radians(d)) and np.cos(np.radians(d)) on the four cardinal
\* directions (the floating point residue of sin(pi) is left out).
SinDeg(d) == CASE d = 0 -> 0 [] d = 90 -> 1 [] d = 180 -> 0 [] d = 270 -> -1
CosDeg(d) == CASE d = 0 -> 1 [] d = 90 -> 0 [] d = 180 -> -1 [] d = 270 -> 0

\* wind_speed / 3.6 (km/h to m/s); the wind speeds here are multiples of
\* 18 km/h, for which the quotient is a whole number of m/s.
KmhToMs(ws) == (ws * 10) \div 36

\* The provider's n-th reading: every fetch returns different values, so
\* that two observations are never mistaken for one another.
FullReading(n) ==
    [humidity |-> 30 + n,
     wind_speed |-> 18 * (n % 3),
     wind_direction |-> Directions[(n % 4) + 1],
     temperature |-> 5 - (n % 7)]

\* WeatherService.get_frost_risk_data: the outcomes of one call.
\*   a full reading; a reading whose humidity, wind speed or wind direction
\*   the provider left out (the dictionary holds None); a failed fetch
\*   ({"error", "partial_data": True}, so "current" is absent); an exception
\*   inside the call ({"error"} alone).
WeatherOutcomes(n, deviate) ==
    {[error |-> FALSE, partial_data |-> FALSE, current |-> FullReading(n)]}
    \cup
    (IF deviate
     THEN {[error |-> FALSE, partial_data |-> FALSE,
            current |-> [FullReading(n) EXCEPT ![f] = None]]
              : f \in {"humidity", "wind_speed", "wind_direction"}}
          \cup {[error |-> TRUE, partial_data |-> TRUE, current |-> <<>>],
                [error |-> TRUE, partial_data |-> FALSE, current |-> <<>>]}
     ELSE {})

\* ----------------------------------------------------- feature names
BaseVars == {"HR", "radinf", "vel", "dir_sin", "dir_cos"}
LagHours == <<6, 12, 24>>

LagName(var, lag_hours) == var \o "_lag_" \o ToString(lag_hours) \o "h"

LagNames(lag_hours) == {LagName(v, lag_hours) : v \in BaseVars}

VarOfLagName(n, lag_hours) == CHOOSE v \in BaseVars : LagName(v, lag_hours) = n

FeatureNames == BaseVars \cup UNION {LagNames(LagHours[i]) : i \in 1..Len(LagHours)}

\* ------------------------------------------------------- classifier
\* train_model_v2.create_features: the feature list saved with the model.
TrainedCols == FeatureNames

\* The package train_model_v2 saves.
TrainedPackage == [loaded |-> TRUE, feature_cols |-> TrainedCols]

\* A package whose classifier was trained without the 24 hour lags.
NarrowPackage == [loaded |-> TRUE, feature_cols |-> TrainedCols \ LagNames(24)]

\* A package whose classifier was also trained on the air temperature.
WidePackage == [loaded |-> TRUE, feature_cols |-> TrainedCols \cup {"temp"}]

\* model_package after a failed joblib.load: None.
NoPackage == [loaded |-> FALSE, feature_cols |-> {}]

Packages == {TrainedPackage, NarrowPackage, WidePackage, NoPackage}

target_mapping(y) ==
    CASE y = 0 -> "Sin Riesgo" [] y = 1 -> "Riesgo" [] y = 2 -> "Moderada" [] y = 3 -> "Severa"

\* model.predict(X)[0].  The forest is a function of the row it is given;
\* this one stands for it: the class follows the tens of the humidity.
Predict(X) == IF X["HR"] = None THEN 0 ELSE (X["HR"] \div 10) % 4

\* ml_prediction when the request ends before the classifier is called.
NoPrediction == [class |-> None, class_name |-> "", error |-> FALSE]

\* ml_prediction of lines 287-303.
Predicted(y) == [class |-> y, class_name |-> target_mapping(y), error |-> FALSE]

\* ml_prediction of the except clause, lines 309-314.
FallbackPrediction == [class |-> 0, class_name |-> "No Helada", error |-> TRUE]

\* predict_enhanced_v2, lines 264-314: the values ml_prediction can take for
\* the feature row X.  X[feature_cols] raises KeyError when a column is
\* missing from X and drops the columns of X that are not listed; a row
\* holding None is either refused by the forest or predicted on, depending
\* on the library's version.
MlPredictions(X, feature_cols) ==
    IF ~(feature_cols \subseteq DOMAIN X)
    THEN {FallbackPrediction}
    ELSE LET row == [c \in feature_cols |-> X[c]]
         IN {Predicted(Predict(row))}
            \cup (IF \E c \in feature_cols : row[c] = None
                  THEN {FallbackPrediction} ELSE {})

\* ------------------------------------------------------------ state
VARIABLES
    weather_history,  \* api_v2.weather_history: key -> deque id, 0 when absent
    deques,           \* the deque objects: id -> contents, oldest first
    clock,            \* the number of datetime.now() readings taken
    fetches,          \* the number of provider fetches made
    deviations,       \* departures from the common case so far
    started,          \* the number of requests begun
    pc,               \* pc[w]: the step worker w's handler is at
    frame,            \* frame[w]: the handler's local variables
    response,         \* response[w]: what the worker's last request returned
    log,              \* history variable: per key, every entry appended, in order
    request,          \* history variable: request[w] is the request w began last
    model_package,    \* api_v2.model_package, as load_model_on_startup left it
    sms_initialized,  \* sms_service.initialized
    alerts,           \* the number of send_frost_alert calls made
    call,             \* the last send_frost_alert call: its arguments, locals and result
    measured,         \* the last calculate_distance call: its arguments and result
    http,             \* the last request to an SMS endpoint and its answer
    cache,            \* weather_service.cache: key -> (cached_time, data)
    minute,           \* the wall clock datetime.now() reads, in minutes
    provider_fetches, \* the number of requests.get calls of the weather service
    lookup,           \* lookup[w]: the weather-service call thread w is in
    done              \* history variable: the calls that returned, in order

pipeVars == <<weather_history, deques, clock, fetches, deviations, started,
              pc, frame, response, log, request, model_package>>

smsVars == <<sms_initialized, alerts, call>>

geoVars == <<measured>>

apiVars == <<http>>

cacheVars == <<cache, minute, provider_fetches, lookup, done>>

\* What the prediction handler never touches.
nonPipeVars == <<smsVars, geoVars, apiVars, cacheVars>>

vars == <<pipeVars, smsVars, geoVars, apiVars, cacheVars>>

IdleFrame ==
    [location_key |-> "", current_weather |-> <<>>, entry |-> <<>>, ref |-> 0,
     history |-> 0, features |-> <<>>, lag |-> 0, lag_idx |-> None,
     \* history variables of the request: its entry's place in log, the
     \* len(history) each lag saw, the timestamp of the entry each lag read
     pos |-> 0, seen |-> <<>>, from |-> <<>>]

\* distance and message are the response's distance_from_station_km and
\* message (lines 224-225 and 328-330).
NoResponse ==
    [status |-> 0, prediction_available |-> FALSE, reason |-> "", distance |-> None,
     message |-> "", ml |-> NoPrediction]

\* id is the request's number in the run, 0 before the worker's first one.
NoRequest == [id |-> 0, loc |-> StationLoc]

\* The contents of the object a history reference names; 0 is the empty
\* list weather_history.get(location_key, []) returns for an unknown key.
HistOf(id) == IF id = 0 THEN <<>> ELSE deques[id]

\* The hour of the wall clock at which datetime.now() gave a timestamp, for
\* requests that arrive PollsPerHour to the hour.
HourOf(timestamp) == timestamp \div PollsPerHour

\* deque(maxlen=24).append: the oldest entry leaves when the deque is full.
DequeAppend(d, e) ==
    IF Len(d) >= HistoryMaxLen THEN Append(Tail(d), e) ELSE Append(d, e)

PipeInit ==
    /\ weather_history = [k \in Keys |-> 0]
    /\ deques = <<>>
    /\ clock = 0
    /\ fetches = 0
    /\ model_package \in Packages
    /\ deviations = IF model_package = TrainedPackage THEN 0 ELSE 1
    /\ started = 0
    /\ pc = [w \in Workers |-> "idle"]
    /\ frame = [w \in Workers |-> IdleFrame]
    /\ response = [w \in Workers |-> NoResponse]
    /\ request = [w \in Workers |-> NoRequest]
    /\ log = [k \in Keys |-> <<>>]

\* The handler returns: the worker is idle again.
Return(w, resp) ==
    /\ pc' = [pc EXCEPT ![w] = "idle"]
    /\ frame' = [frame EXCEPT ![w] = IdleFrame]
    /\ response' = [response EXCEPT ![w] = resp @@ [ml |-> NoPrediction]]

\* A request without coordinates ("not latitude or not longitude").
NoCoords(loc) == loc.lat = 0 \/ loc.lon = 0

\* predict_enhanced_v2, lines 235-244, for a location inside the coverage
\* whose weather fetch returned wd: either the 500 response of line 242, or
\* the handler goes on to store_weather_data.
Admit(w, loc, wd) ==
    /\ fetches' = fetches + 1
    /\ \/ /\ wd.error /\ ~wd.partial_data
          /\ Return(w, [status |-> 500, prediction_available |-> FALSE,
                        reason |-> "weather", distance |-> None, message |-> ""])
       \/ /\ ~(wd.error /\ ~wd.partial_data)
          /\ pc' = [pc EXCEPT ![w] = "store_check"]
          /\ frame' = [frame EXCEPT ![w] =
                [IdleFrame EXCEPT !.location_key = KeyOf(loc),
                                  !.current_weather = wd.current]]
          /\ response' = [response EXCEPT ![w] = NoResponse]
    /\ UNCHANGED <<weather_history, deques, clock, log>>

\* predict_enhanced_v2, lines 208-244: the coordinates check, the geofence
\* and the weather fetch.
Begin(w) ==
    /\ pc[w] = "idle"
    /\ started < MaxRequests
    /\ started' = started + 1
    /\ \E loc \in (IF deviations < MaxDeviations THEN Locations ELSE {StationLoc}) :
        /\ request' = [request EXCEPT ![w] = [id |-> started + 1, loc |-> loc]]
        /\ \/ /\ NoCoords(loc)
              /\ Return(w, [status |-> 400, prediction_available |-> FALSE, reason |-> "coords",
                            distance |-> None, message |-> ""])
              /\ deviations' = deviations + 1
              /\ UNCHANGED <<weather_history, deques, clock, fetches, log>>
           \/ /\ ~NoCoords(loc)
              /\ ~validate_location(loc)
              /\ Return(w, [status |-> 200, prediction_available |-> FALSE,
                            reason |-> "out_of_coverage", distance |-> loc.dist,
                            message |-> validation_message(loc)])
              /\ deviations' = deviations + 1
              /\ UNCHANGED <<weather_history, deques, clock, fetches, log>>
           \/ /\ ~NoCoords(loc)
              /\ validate_location(loc)
              /\ \E wd \in WeatherOutcomes(fetches + 1,
                                           loc = StationLoc /\ deviations < MaxDeviations) :
                   /\ deviations' = IF loc # StationLoc \/ wd.error
                                          \/ wd.current # FullReading(fetches + 1)
                                    THEN deviations + 1 ELSE deviations
                   /\ Admit(w, loc, wd)

\* A request of the steady stream of SpecLong: the station's location, a
\* full reading.  The second worker handles only the first request of a run.
SteadyBegin(w) ==
    /\ pc[w] = "idle"
    /\ started < MaxSteady
    /\ w = "w2" => started = 0
    /\ started' = started + 1
    /\ request' = [request EXCEPT ![w] = [id |-> started + 1, loc |-> StationLoc]]
    /\ Admit(w, StationLoc,
             [error |-> FALSE, partial_data |-> FALSE, current |-> FullReading(fetches + 1)])
    /\ UNCHANGED deviations

\* store_weather_data, line 111: location_key not in weather_history.
StoreCheck(w) ==
    /\ pc[w] = "store_check"
    /\ pc' = [pc EXCEPT ![w] =
                IF weather_history[frame[w].location_key] = 0
                THEN "store_create" ELSE "store_entry"]
    /\ UNCHANGED <<weather_history, deques, clock, fetches, deviations, started,
                   frame, response, log>>

\* store_weather_data, line 112: weather_history[location_key] = deque(maxlen=24).
StoreCreate(w) ==
    /\ pc[w] = "store_create"
    /\ deques' = Append(deques, <<>>)
    /\ weather_history' = [weather_history EXCEPT ![frame[w].location_key] = Len(deques) + 1]
    /\ pc' = [pc EXCEPT ![w] = "store_entry"]
    /\ UNCHANGED <<clock, fetches, deviations, started, frame, response, log>>

\* The entry store_weather_data builds from a reading (lines 114-121).
MakeEntry(weather_data, now) ==
    [timestamp |-> now,
     HR |-> Get(weather_data, "humidity", DefaultHumidity),
     radinf |-> Get(weather_data, "radiation", DefaultRadiation),
     vel |-> KmhToMs(Get(weather_data, "wind_speed", DefaultWindSpeed)),
     dir_sin |-> SinDeg(Get(weather_data, "wind_direction", DefaultWindDirection)),
     dir_cos |-> CosDeg(Get(weather_data, "wind_direction", DefaultWindDirection))]

\* None / 3.6 and np.radians(None) raise TypeError.
RaisesTypeError(weather_data) ==
    \/ Get(weather_data, "wind_speed", DefaultWindSpeed) = None
    \/ Get(weather_data, "wind_direction", DefaultWindDirection) = None

\* store_weather_data, lines 114-122 up to the lookup of the deque: the entry
\* is built (datetime.now() is read) and weather_history[location_key] is
\* fetched.  A TypeError leaves through the handler's except clause (500).
StoreEntry(w) ==
    /\ pc[w] = "store_entry"
    /\ clock' = clock + 1
    /\ \/ /\ RaisesTypeError(frame[w].current_weather)
          /\ Return(w, [status |-> 500, prediction_available |-> FALSE,
                        reason |-> "TypeError", distance |-> None, message |-> ""])
       \/ /\ ~RaisesTypeError(frame[w].current_weather)
          /\ frame' = [frame EXCEPT ![w].entry = MakeEntry(frame[w].current_weather, clock + 1),
                                    ![w].ref = weather_history[frame[w].location_key]]
          /\ pc' = [pc EXCEPT ![w] = "store_append"]
          /\ UNCHANGED response
    /\ UNCHANGED <<weather_history, deques, fetches, deviations, started, log>>

\* store_weather_data, line 122: .append(entry) on the deque fetched.
StoreAppend(w) ==
    /\ pc[w] = "store_append"
    /\ deques' = [deques EXCEPT ![frame[w].ref] = DequeAppend(@, frame[w].entry)]
    /\ log' = [log EXCEPT ![frame[w].location_key] = Append(@, frame[w].entry)]
    /\ frame' = [frame EXCEPT ![w].pos = Len(log[frame[w].location_key]) + 1]
    /\ pc' = [pc EXCEPT ![w] = "features"]
    /\ UNCHANGED <<weather_history, clock, fetches, deviations, started, response>>

\* predict_enhanced_v2, lines 250-256: the present-time values.
CurrentData(current_weather) ==
    [HR |-> Get(current_weather, "humidity", DefaultHumidity),
     radinf |-> NightRadinf,
     vel |-> KmhToMs(Get(current_weather, "wind_speed", DefaultWindSpeed)),
     dir_sin |-> SinDeg(Get(current_weather, "wind_direction", DefaultWindDirection)),
     dir_cos |-> CosDeg(Get(current_weather, "wind_direction", DefaultWindDirection))]

\* prepare_features_with_lags, lines 129-130: the variables under their own names.
BaseFeatures(current_data) == [v \in BaseVars |-> Get(current_data, v, 0)]

\* prepare_features_with_lags, line 137: the index a lag reads, given len(history).
LagIdx(len, lag_hours) ==
    IF len >= lag_hours THEN -lag_hours ELSE IF len > 0 THEN -len ELSE None

\* A variant of LagFeatures that loops over the keys of the entry read, and
\* so emits a lag feature for its timestamp too.
LagFeaturesOverEntryKeys(features, lag_data, lag_hours) ==
    [n \in {LagName(k, lag_hours) : k \in DOMAIN lag_data} |->
        lag_data[CHOOSE k \in DOMAIN lag_data : LagName(k, lag_hours) = n]]

\* prepare_features_with_lags, lines 140-142: the lag features read from an entry.
LagFeatures(features, lag_data, lag_hours) ==
    [n \in LagNames(lag_hours) |->
        Get(lag_data, VarOfLagName(n, lag_hours), features[VarOfLagName(n, lag_hours)])]

\* prepare_features_with_lags, lines 145-146: the fallback to the current value.
FallbackFeatures(features, lag_hours) ==
    [n \in LagNames(lag_hours) |-> features[VarOfLagName(n, lag_hours)]]

\* predict_enhanced_v2, lines 250-258, and prepare_features_with_lags, lines
\* 126-133: the base features, and history = weather_history.get(location_key, []).
PrepareBase(w) ==
    /\ pc[w] = "features"
    /\ frame' = [frame EXCEPT
                    ![w].features = BaseFeatures(CurrentData(frame[w].current_weather)),
                    ![w].history = weather_history[frame[w].location_key],
                    ![w].lag = 1]
    /\ pc' = [pc EXCEPT ![w] = "lag_idx"]
    /\ UNCHANGED <<weather_history, deques, clock, fetches, deviations, started,
                   response, log>>

\* prepare_features_with_lags, line 137: lag_idx from len(history).
LagIndex(w) ==
    LET h == LagHours[frame[w].lag]
        len == Len(HistOf(frame[w].history))
    IN /\ pc[w] = "lag_idx"
       /\ frame' = [frame EXCEPT ![w].lag_idx = LagIdx(len, h),
                                 ![w].seen = @ @@ (h :> len)]
       /\ pc' = [pc EXCEPT ![w] = "lag_read"]
       /\ UNCHANGED <<weather_history, deques, clock, fetches, deviations, started,
                      response, log>>

\* prepare_features_with_lags, lines 139-146: history[lag_idx] is read, or the
\* fallback is taken, and the loop goes to the next lag.
LagRead(w) ==
    LET h == LagHours[frame[w].lag]
        hist == HistOf(frame[w].history)
        f == frame[w].features
    IN /\ pc[w] = "lag_read"
       /\ \/ /\ frame[w].lag_idx # None /\ Len(hist) > 0
             /\ frame' = [frame EXCEPT
                    ![w].features = LagFeatures(f, PyIndex(hist, frame[w].lag_idx), h) @@ f,
                    ![w].from = @ @@ (h :> PyIndex(hist, frame[w].lag_idx).timestamp),
                    ![w].lag = @ + 1]
          \/ /\ ~(frame[w].lag_idx # None /\ Len(hist) > 0)
             /\ frame' = [frame EXCEPT
                    ![w].features = FallbackFeatures(f, h) @@ f,
                    ![w].from = @ @@ (h :> 0),
                    ![w].lag = @ + 1]
       /\ pc' = [pc EXCEPT ![w] = IF frame[w].lag = Len(LagHours) THEN "predict" ELSE "lag_idx"]
       /\ UNCHANGED <<weather_history, deques, clock, fetches, deviations, started,
                      response, log>>

\* predict_enhanced_v2, lines 260-387: the classifier and the advisory are
\* called on the features and the response is returned; no shared state
\* changes.  Without a model ml_prediction stays None, and the advisory,
\* which calls ml_prediction.get, raises AttributeError: the handler's
\* except clause answers 500.
Respond(w) ==
    /\ pc[w] = "predict"
    /\ \/ /\ ~model_package.loaded
          /\ Return(w, [status |-> 500, prediction_available |-> FALSE,
                        reason |-> "AttributeError", distance |-> None, message |-> ""])
       \/ /\ model_package.loaded
          /\ \E ml \in MlPredictions(frame[w].features, model_package.feature_cols) :
                Return(w, [status |-> 200, prediction_available |-> TRUE, reason |-> "",
                           distance |-> request[w].loc.dist,
                           message |-> validation_message(request[w].loc),
                           ml |-> ml])
    /\ UNCHANGED <<weather_history, deques, clock, fetches, deviations, started, log>>

PipeNext ==
    \E w \in Workers :
        \/ Begin(w) /\ UNCHANGED <<model_package, nonPipeVars>>
        \/ StoreCheck(w) /\ UNCHANGED <<request, model_package, nonPipeVars>>
        \/ StoreCreate(w) /\ UNCHANGED <<request, model_package, nonPipeVars>>
        \/ StoreEntry(w) /\ UNCHANGED <<request, model_package, nonPipeVars>>
        \/ StoreAppend(w) /\ UNCHANGED <<request, model_package, nonPipeVars>>
        \/ PrepareBase(w) /\ UNCHANGED <<request, model_package, nonPipeVars>>
        \/ LagIndex(w) /\ UNCHANGED <<request, model_package, nonPipeVars>>
        \/ LagRead(w) /\ UNCHANGED <<request, model_package, nonPipeVars>>
        \/ Respond(w) /\ UNCHANGED <<request, model_package, nonPipeVars>>

\* The steps at which SpecLong lets the second worker be suspended while the
\* first runs: after the membership test of line 111 and before the append
\* of line 122.
ParkPoints == {"idle", "store_create", "store_append"}

LongSched(w) == w = "w1" => pc["w2"] \in ParkPoints

LongNext ==
    \E w \in Workers :
        \/ LongSched(w) /\ SteadyBegin(w) /\ UNCHANGED <<model_package, nonPipeVars>>
        \/ LongSched(w) /\ StoreCheck(w) /\ UNCHANGED <<request, model_package, nonPipeVars>>
        \/ LongSched(w) /\ StoreCreate(w) /\ UNCHANGED <<request, model_package, nonPipeVars>>
        \/ LongSched(w) /\ StoreEntry(w) /\ UNCHANGED <<request, model_package, nonPipeVars>>
        \/ LongSched(w) /\ StoreAppend(w) /\ UNCHANGED <<request, model_package, nonPipeVars>>
        \/ LongSched(w) /\ PrepareBase(w) /\ UNCHANGED <<request, model_package, nonPipeVars>>
        \/ LongSched(w) /\ LagIndex(w) /\ UNCHANGED <<request, model_package, nonPipeVars>>
        \/ LongSched(w) /\ LagRead(w) /\ UNCHANGED <<request, model_package, nonPipeVars>>
        \/ LongSched(w) /\ Respond(w) /\ UNCHANGED <<request, model_package, nonPipeVars>>



\* =========================================================== SMS alerts
\* sms_service.py.  A JSON value of a payload is a tagged record; a
\* dictionary is a function from its keys, so that dict.get is Get.
JNone == [t |-> "none"]
JStr(s) == [t |-> "str", s |-> s]
\* A float, in tenths.
JNum(n) == [t |-> "num", n |-> n]
JInt(n) == [t |-> "int", n |-> n]
JBool(b) == [t |-> "bool", b |-> b]
\* A float too large for an integer of the model: its whole part has `digits`
\* digits.
JBig(digits) == [t |-> "big", digits |-> digits]
\* An ISO time stamp: date, "T", hours and minutes.
JTime(date, hm) == [t |-> "time", date |-> date, hm |-> hm]
EmptyDict == [k \in {} |-> k]
\* The outcome of a call that raised an exception.
Raised == [t |-> "raise"]

\* Python's truth value of a JSON value.
Truthy(x) ==
    CASE x.t = "none" -> FALSE
      [] x.t = "str" -> x.s # ""
      [] x.t = "num" -> x.n # 0
      [] x.t = "int" -> x.n # 0
      [] x.t = "bool" -> x.b
      [] OTHER -> TRUE

\* f"{x:.1f}" of a number given in tenths.
FmtTenth(n) ==
    (IF n < 0 THEN "-" ELSE "") \o ToString(Abs(n) \div 10) \o "." \o ToString(Abs(n) % 10)

\* str(x), as an f-string renders a field.
Str(x) ==
    CASE x.t = "none" -> "None"
      [] x.t = "str" -> x.s
      [] x.t = "num" -> FmtTenth(x.n)
      [] x.t = "int" -> ToString(x.n)
      [] x.t = "bool" -> IF x.b THEN "True" ELSE "False"
      [] x.t = "time" -> x.date \o "T" \o x.hm

\* A number's value in tenths.
Tenths(x) == IF x.t = "int" THEN 10 * x.n ELSE x.n

IsNumber(x) == x.t \in {"num", "int", "big"}

RECURSIVE Filler(_)
\* A text of n characters.
Filler(n) ==
    IF n <= 0 THEN ""
    ELSE LET half == Filler(n \div 2)
         IN half \o half \o (IF n % 2 = 1 THEN "9" ELSE "")

\* f"{x:.0f}" of a number given in tenths (round half to even).
Fmt0f(n) ==
    LET q == Abs(n) \div 10
        r == Abs(n) % 10
        up == r > 5 \/ (r = 5 /\ q % 2 = 1)
    IN (IF n < 0 /\ (q > 0 \/ up) THEN "-" ELSE "") \o ToString(IF up THEN q + 1 ELSE q)

\* f"{dist:.0f}"
FmtDist(dist) == IF dist.t = "big" THEN Filler(dist.digits) ELSE Fmt0f(Tenths(dist))

\* ------------------------------------------------------ message text
\* A message is a sequence of tokens: a piece of text, or one symbol (an
\* emoji: one character for len()).
Tok(s) == [kind |-> "text", s |-> s]
Sym(name) == [kind |-> "symbol", s |-> name]

TokLen(tok) == IF tok.kind = "symbol" THEN 1 ELSE Len(tok.s)

RECURSIVE CharLen(_)
\* The number of characters of a sequence of tokens.
CharLen(msg) == IF msg = <<>> THEN 0 ELSE TokLen(Head(msg)) + CharLen(Tail(msg))

IsBlank(tok) == tok.kind = "text" /\ tok.s \in {"", " ", "\n"}

RECURSIVE LStrip(_)
LStrip(msg) == IF msg # <<>> /\ IsBlank(Head(msg)) THEN LStrip(Tail(msg)) ELSE msg

RECURSIVE RStrip(_)
RStrip(msg) ==
    IF msg # <<>> /\ IsBlank(msg[Len(msg)]) THEN RStrip(SubSeq(msg, 1, Len(msg) - 1)) ELSE msg

\* message.strip(), on tokens.
Strip(msg) == RStrip(LStrip(msg))

\* The message a builder returns: its text, stripped.
Msg(text) == [t |-> "msg", toks |-> Strip(text)]

\* len(message)
Length(message) == CharLen(message.toks)

\* now.strftime('%d/%m %H:%M'): eleven characters.
TimeStamp == Tok("05/11 21:19")

\* ---------------------------------------------------- classification
Vocabulary == {"Sin Riesgo", "Riesgo", "Moderada", "Severa"}

\* risk_order.get(label, 0), line 127.
RiskOrder(label) ==
    IF label.t # "str" THEN 0
    ELSE CASE label.s = "Sin Riesgo" -> 0
           [] label.s = "Riesgo" -> 1
           [] label.s = "Moderada" -> 2
           [] label.s = "Severa" -> 3
           [] OTHER -> 0

\* A variant of Reconcile that keeps the less severe class.
ReconcileLessSevere(ml_class, api_class) ==
    IF ~Truthy(api_class) THEN ml_class
    ELSE IF RiskOrder(api_class) <= RiskOrder(ml_class) THEN api_class ELSE ml_class

\* A variant of Reconcile that tests the advisory class against None only.
ReconcileNoneOnly(ml_class, api_class) ==
    IF api_class = JNone THEN ml_class
    ELSE IF RiskOrder(api_class) >= RiskOrder(ml_class) THEN api_class ELSE ml_class

\* A variant of Reconcile in which an advisory class always wins.
ReconcileAdvisoryWins(ml_class, api_class) ==
    IF ~Truthy(api_class) THEN ml_class ELSE api_class

\* _get_combined_classification, lines 123-128.
Reconcile(ml_class, api_class) ==
    IF ~Truthy(api_class) THEN ml_class
    ELSE IF RiskOrder(api_class) >= RiskOrder(ml_class) THEN api_class ELSE ml_class

\* d.get(k, {}) followed by another .get: None has no .get (AttributeError).
SubDict(d, k) == Get(d, k, EmptyDict)

\* _get_combined_classification, line 120: ml_class, or Raised.
MlClass(data) ==
    IF SubDict(data, "ml_prediction_v2") = JNone THEN Raised
    ELSE IF SubDict(SubDict(data, "ml_prediction_v2"), "prediction") = JNone THEN Raised
    ELSE Get(SubDict(SubDict(data, "ml_prediction_v2"), "prediction"),
             "class_name", JStr("Sin Riesgo"))

\* _get_combined_classification, line 121: api_class, or Raised.
ApiClass(data) ==
    IF SubDict(data, "ai_analysis") = JNone THEN Raised
    ELSE Get(SubDict(data, "ai_analysis"), "clasificacion_final", JNone)

\* _get_combined_classification.
CombinedClassification(data) ==
    IF MlClass(data) = Raised \/ ApiClass(data) = Raised THEN Raised
    ELSE Reconcile(MlClass(data), ApiClass(data))

\* ------------------------------------------------------- the forecast
RECURSIVE MinScan(_, _, _)
\* _get_min_temp_forecast, lines 135-142: the loop over forecast[:24], from
\* hour i on; best is the minimum so far (found is FALSE for float('inf')).
MinScan(forecast, i, best) ==
    IF i > Len(forecast) \/ i > 24 THEN best
    ELSE LET temp == Get(forecast[i], "temperature", JNone)
         IN IF temp # JNone /\ (~best.found \/ Tenths(temp) < Tenths(best.min_temp))
            THEN MinScan(forecast, i + 1,
                         [found |-> TRUE, min_temp |-> temp,
                          min_hour |-> Get(forecast[i], "time", JStr(""))])
            ELSE MinScan(forecast, i + 1, best)

\* _get_min_temp_forecast: (min_temp, min_hour), None for a missing one.
MinTempForecast(forecast) ==
    LET best == MinScan(forecast, 1, [found |-> FALSE, min_temp |-> JNone, min_hour |-> JNone])
    IN IF forecast = <<>> \/ ~best.found
       THEN [min_temp |-> JNone, min_hour |-> JNone]
       ELSE [min_temp |-> best.min_temp,
             \* min_hour.split("T")[1][:5] when it holds a "T"
             min_hour |-> IF best.min_hour.t = "time" THEN JStr(best.min_hour.hm)
                          ELSE best.min_hour]

\* f"{min_temp:.1f}" if min_temp is not None else "?"
MinTempStr(min_temp) == IF min_temp = JNone THEN "?" ELSE FmtTenth(Tenths(min_temp))

\* ------------------------------------------------------ the renderings
\* emoji_map.get(risk_class, "?"), lines 162-163.
Emoji(risk_class) ==
    CASE risk_class = JStr("Sin Riesgo") -> Sym("check")
      [] risk_class = JStr("Riesgo") -> Sym("warning")
      [] risk_class = JStr("Moderada") -> Sym("ice")
      [] risk_class = JStr("Severa") -> Sym("snowflake")
      [] OTHER -> Tok("?")

\* _build_prediction_message_minimal: the rich rendering, or Raised.
PredictionMessageMinimal(data) ==
    LET risk_class == CombinedClassification(data)
        temp == Get(SubDict(data, "current_conditions"), "temperature", JStr("?"))
        m == MinTempForecast(Get(data, "hourly_forecast", <<>>))
        prob == Get(SubDict(data, "ai_analysis"), "probabilidad_estimada", JStr(""))
        min_hour_str == IF Truthy(m.min_hour) THEN Str(m.min_hour) ELSE "?"
    IN IF risk_class = Raised THEN Raised
       ELSE IF risk_class = JStr("Sin Riesgo")
       THEN Msg(<<Tok("WayraFrost "), Emoji(risk_class), Tok("\n"),
                    Tok(Str(risk_class)), Tok("\nAhora:"), Tok(Str(temp)),
                    Tok("C\nMin:"), Tok(MinTempStr(m.min_temp)), Tok("C\n"), TimeStamp>>)
       ELSE Msg(<<Tok("WayraFrost "), Emoji(risk_class), Tok("\n"),
                    Tok(Str(risk_class)), Tok("\nProb:"), Tok(Str(prob)),
                    Tok("%\nAhora:"), Tok(Str(temp)), Tok("C Min:"),
                    Tok(MinTempStr(m.min_temp)), Tok("C\nRiesgo:"), Tok(min_hour_str),
                    Tok("\n"), TimeStamp>>)

\* _build_prediction_message_no_emoji: the plain rendering, or Raised.
PredictionMessageNoEmoji(data) ==
    LET risk_class == CombinedClassification(data)
        temp == Get(SubDict(data, "current_conditions"), "temperature", JStr("N/A"))
        m == MinTempForecast(Get(data, "hourly_forecast", <<>>))
        prob == Get(SubDict(data, "ai_analysis"), "probabilidad_estimada", JStr(""))
    IN IF risk_class = Raised THEN Raised
       ELSE IF risk_class = JStr("Sin Riesgo")
       THEN Msg(<<Tok("WayraFrost\n"), Tok(Str(risk_class)), Tok("\nAhora:"),
                    Tok(Str(temp)), Tok("C Min:"), Tok(MinTempStr(m.min_temp)),
                    Tok("C\n"), TimeStamp>>)
       ELSE Msg(<<Tok("WayraFrost ALERTA\n"), Tok(Str(risk_class)), Tok(" Prob:"),
                    Tok(Str(prob)), Tok("%\nAhora:"), Tok(Str(temp)), Tok("C Min:"),
                    Tok(MinTempStr(m.min_temp)), Tok("C\nCritico:"), Tok(Str(m.min_hour)),
                    Tok("\n"), TimeStamp>>)

\* The temperature the unavailable renderings show (lines 229-239): the
\* weather service is asked when the payload holds both coordinates, and its
\* answer `weather_temp` is an input here; "?" otherwise.
UnavailableTemp(data, weather_temp) ==
    LET rl == SubDict(data, "requested_location")
    IN IF rl = JNone THEN JStr("?")
       ELSE IF Truthy(Get(rl, "latitude", JNone)) /\ Truthy(Get(rl, "longitude", JNone))
       THEN weather_temp
       ELSE JStr("?")

\* A variant of the rich unavailable rendering that leaves the distance out.
UnavailableMessageWithoutDistance(data, weather_temp) ==
    IF ~IsNumber(Get(data, "distance_from_station_km", JInt(0))) THEN Raised
    ELSE Msg(<<Tok("WayraFrost\nTemp:"), Tok(Str(UnavailableTemp(data, weather_temp))),
               Tok("C\nFuera de cobertura\n"), TimeStamp>>)

\* _build_unavailable_message_minimal, or Raised (f"{dist:.0f}" of a value
\* that is no number).
UnavailableMessageMinimal(data, weather_temp) ==
    LET dist == Get(data, "distance_from_station_km", JInt(0))
    IN IF ~IsNumber(dist) THEN Raised
       ELSE Msg(<<Tok("WayraFrost\nTemp:"), Tok(Str(UnavailableTemp(data, weather_temp))),
                    Tok("C\nFuera de cobertura\n"), Tok(FmtDist(dist)),
                    Tok("km de estacion\n"), TimeStamp>>)

\* _build_unavailable_message_no_emoji, or Raised.
UnavailableMessageNoEmoji(data, weather_temp) ==
    LET dist == Get(data, "distance_from_station_km", JInt(0))
    IN IF ~IsNumber(dist) THEN Raised
       ELSE Msg(<<Tok("WayraFrost\nTemp: "), Tok(Str(UnavailableTemp(data, weather_temp))),
                    Tok("C\nFUERA DE COBERTURA\n"), Tok(FmtDist(dist)),
                    Tok("km de estacion\nSolo valido en Junin\n"), TimeStamp>>)

\* ------------------------------------------------------ the payloads
\* An advisory text that is no label of the vocabulary.
LongLabel ==
    "Riesgo elevado de helada durante la madrugada con cielo despejado y viento en calma; se recomienda proteger los cultivos sensibles antes de las 03:00 horas"

ClassNames == Vocabulary \cup {"No Helada"}

\* The values of the payload's ml_prediction_v2 (api_v2.py lines 288-314),
\* None, and a dictionary without a prediction.
MlValues ==
    {JNone, EmptyDict} \cup {[prediction |-> [class_name |-> JStr(l)]] : l \in ClassNames}

AdvisoryValues ==
    {JNone, JStr("")} \cup {JStr(l) : l \in Vocabulary \cup {"Extrema", LongLabel}}

\* The values of the payload's ai_analysis.
AiValues ==
    {JNone, [probabilidad_estimada |-> JInt(85)]}
    \cup {[probabilidad_estimada |-> JInt(85), clasificacion_final |-> v] :
             v \in AdvisoryValues}

Forecast ==
    <<[time |-> JTime("2026-11-06", "00:00"), temperature |-> JNum(15)],
      [time |-> JTime("2026-11-06", "03:00"), temperature |-> JNum(-30)],
      [time |-> JTime("2026-11-06", "06:00"), temperature |-> JInt(1)]>>

Conditions ==
    [current_conditions |-> [temperature |-> JNum(-25)], hourly_forecast |-> Forecast]

\* Payloads with other conditions: none, no temperature, an empty forecast,
\* hours without a temperature, hours whose time is absent or holds no "T", a
\* temperature text as long as a message.
OtherConditions ==
    {EmptyDict,
     [current_conditions |-> [temperature |-> JStr(Filler(SmsSoftLimit))],
      hourly_forecast |-> Forecast],
     [current_conditions |-> EmptyDict, hourly_forecast |-> <<>>],
     [current_conditions |-> [temperature |-> JNone],
      hourly_forecast |-> <<[time |-> JTime("2026-11-06", "00:00")]>>],
     [current_conditions |-> [temperature |-> JInt(4)],
      hourly_forecast |-> <<[temperature |-> JNum(21)]>>],
     [current_conditions |-> [temperature |-> JInt(4)],
      hourly_forecast |-> <<[time |-> JStr("03:00"), temperature |-> JNum(21)]>>]}

Available == [prediction_available |-> JBool(TRUE)]

OptionalKey(k, values) == {EmptyDict} \cup {k :> v : v \in values}

\* Every primary class with every advisory class, under the same conditions.
LabelPayloads ==
    {Available @@ ml @@ ai @@ Conditions :
        ml \in OptionalKey("ml_prediction_v2", MlValues),
        ai \in OptionalKey("ai_analysis", AiValues)}

ConditionPayloads ==
    {Available @@ [ml_prediction_v2 |-> [prediction |-> [class_name |-> JStr(l)]]] @@ c :
        l \in {"Sin Riesgo", "Moderada"}, c \in OtherConditions}

\* data, its probability text filled up so that the rich rendering has n
\* characters.
PadTo(data, n) ==
    LET blank == [data EXCEPT !.ai_analysis = [probabilidad_estimada |-> JStr("")]]
        room == n - Length(PredictionMessageMinimal(blank))
    IN [data EXCEPT !.ai_analysis = [probabilidad_estimada |-> JStr(Filler(room))]]

\* Payloads whose rich rendering is at the limit of line 72 and just over it.
LimitPayloads ==
    {PadTo(Available @@ [ml_prediction_v2 |-> [prediction |-> [class_name |-> JStr(l)]],
                         ai_analysis |-> EmptyDict] @@ Conditions, n) :
        l \in {"Riesgo", "Severa"}, n \in {SmsSoftLimit, SmsSoftLimit + 1}}

\* Payloads without an available prediction (api_v2.py lines 221-233).
UnavailablePayloads ==
    {a @@ rl @@ d :
        a \in OptionalKey("prediction_available", {JBool(FALSE)}),
        rl \in OptionalKey("requested_location",
                           {[latitude |-> JNum(-158), longitude |-> JNum(-700)]}),
        d \in OptionalKey("distance_from_station_km",
                          {JNum(7114), JNum(525), JNone, JBig(SmsSoftLimit)})}

\* A payload with a field as long as the longest message the transport takes.
OverCeilingPayloads ==
    {Available @@ [ml_prediction_v2 |-> [prediction |-> [class_name |-> JStr("Severa")]],
                   ai_analysis |-> [probabilidad_estimada |-> JStr(Filler(SmsHardCeiling))]]
               @@ Conditions}

Payloads ==
    LabelPayloads \cup ConditionPayloads \cup LimitPayloads \cup UnavailablePayloads
        \cup OverCeilingPayloads

Digits9 == <<"9", "8", "7", "6", "5", "4", "3", "2", "1">>

Prefix51 == <<"+", "5", "1">>

Phones == {Prefix51 \o Digits9, <<"+">> \o Digits9}

\* What weather.get("temperature", "?") yields in the unavailable builders: a
\* reading, None, or "?" (an error answer, or the call raised).
WeatherTemps == {JNum(83), JNone, JStr("?")}

\* ------------------------------------------------------ send_frost_alert
RECURSIVE LStripPlus(_)
\* phone_number.lstrip('+')
LStripPlus(phone) ==
    IF phone # <<>> /\ Head(phone) = "+" THEN LStripPlus(Tail(phone)) ELSE phone

StartsWith(phone, prefix) ==
    Len(phone) >= Len(prefix) /\ SubSeq(phone, 1, Len(prefix)) = prefix

\* Lines 58-59.
NormalizePhone(phone) ==
    IF StartsWith(phone, Prefix51) THEN phone ELSE Prefix51 \o LStripPlus(phone)

\* A local variable that was not assigned.
NotBuilt == [t |-> "unset"]

NoCall ==
    [phone_number |-> <<>>, prediction_data |-> EmptyDict, to |-> <<>>,
     is_available |-> FALSE, risk_class |-> NotBuilt, rich |-> NotBuilt,
     plain |-> NotBuilt, message |-> NotBuilt, tier |-> "none", handed |-> FALSE,
     \* the calls of weather_service.get_current_weather the builders made
     weather_calls |-> 0,
     result |-> [success |-> FALSE, error |-> ""]]

\* A variant of TooLong that is off by one.
TooLongAtLimit(message) == Length(message) >= SmsSoftLimit

\* Line 72.
TooLong(message) == Length(message) > SmsSoftLimit

\* Lines 231-234: the first unavailable builder asks for the weather.
AsksWeather(prediction_data) ==
    /\ ~Truthy(Get(prediction_data, "prediction_available", JBool(FALSE)))
    /\ UnavailableTemp(prediction_data, JInt(1)) = JInt(1)

\* Lines 72-77 and 256-259: the second unavailable builder runs, and asks.
AsksWeatherAgain(prediction_data, weather_temp) ==
    /\ AsksWeather(prediction_data)
    /\ UnavailableMessageMinimal(prediction_data, weather_temp) # Raised
    /\ TooLong(UnavailableMessageMinimal(prediction_data, weather_temp))

\* send_frost_alert.  weather_temp and weather_temp_again are what the
\* weather service answers the two unavailable builders; delivered is whether
\* client.messages.create returned (it raises otherwise).
SendFrostAlert(phone_number, prediction_data, weather_temp, weather_temp_again, delivered) ==
    LET to == NormalizePhone(phone_number)
        is_available == Truthy(Get(prediction_data, "prediction_available", JBool(FALSE)))
        rich == IF is_available THEN PredictionMessageMinimal(prediction_data)
                ELSE UnavailableMessageMinimal(prediction_data, weather_temp)
        long == rich # Raised /\ TooLong(rich)
        plain == IF ~long THEN NotBuilt
                 ELSE IF is_available THEN PredictionMessageNoEmoji(prediction_data)
                 ELSE UnavailableMessageNoEmoji(prediction_data, weather_temp_again)
        message == IF long THEN plain ELSE rich
        weather_calls == (IF AsksWeather(prediction_data) THEN 1 ELSE 0)
                         + (IF AsksWeatherAgain(prediction_data, weather_temp) THEN 1 ELSE 0)
        started_call == [NoCall EXCEPT !.phone_number = phone_number,
                                       !.prediction_data = prediction_data]
    IN /\ alerts < MaxAlerts
       /\ alerts' = alerts + 1
       /\ call' =
            IF ~sms_initialized
            THEN [started_call EXCEPT !.result =
                     [success |-> FALSE, error |-> "Servicio SMS no disponible"]]
            ELSE IF message = Raised
            THEN [started_call EXCEPT
                     !.to = to, !.is_available = is_available,
                     !.risk_class = IF is_available
                                    THEN CombinedClassification(prediction_data)
                                    ELSE NotBuilt,
                     !.rich = rich, !.plain = plain,
                     !.weather_calls = weather_calls,
                     !.result = [success |-> FALSE, error |-> "exception"]]
            ELSE [started_call EXCEPT
                     !.to = to, !.is_available = is_available,
                     !.risk_class = IF is_available
                                    THEN CombinedClassification(prediction_data)
                                    ELSE NotBuilt,
                     !.rich = rich, !.plain = plain, !.message = message,
                     !.weather_calls = weather_calls,
                     !.tier = IF long THEN "plain" ELSE "rich",
                     !.handed = TRUE,
                     !.result = IF delivered THEN [success |-> TRUE, error |-> ""]
                                ELSE [success |-> FALSE, error |-> "exception"]]
       /\ UNCHANGED sms_initialized

\* SMSService.__init__, lines 30-35: initialized only with the SDK and the
\* three credentials.
SmsInit ==
    /\ sms_initialized \in BOOLEAN
    /\ alerts = 0
    /\ call = NoCall

\* What the weather service may answer a builder: the answers of
\* WeatherTemps when the builder asks it, none otherwise.
WeatherAnswers(asked) == IF asked THEN WeatherTemps ELSE {JStr("?")}

SmsNext ==
    \E phone_number \in Phones, prediction_data \in Payloads, delivered \in BOOLEAN :
        \E weather_temp \in WeatherAnswers(AsksWeather(prediction_data)) :
            \E weather_temp_again \in
                    WeatherAnswers(AsksWeatherAgain(prediction_data, weather_temp)) :
                /\ SendFrostAlert(phone_number, prediction_data, weather_temp,
                                  weather_temp_again, delivered)
                /\ UNCHANGED <<pipeVars, geoVars, apiVars, cacheVars>>

\* ------------------------------------------------ the local advisory
\* A variant of FallbackAnalysis that also names a class of the vocabulary.
FallbackAnalysisWithClass(min_temp_forecast, frost_hours_count, ml_prediction) ==
    [nivel_riesgo_combinado |-> JStr("muy_alto"), probabilidad_estimada |-> JInt(90),
     clasificacion_final |-> JStr("Severa")]

\* _generate_fallback_analysis, lines 199-200 and 277-296 and 339-342: the
\* level and the probability of the rule-based analysis.  Temperatures are in
\* tenths of a degree, probabilities in percent; the prediction of api_v2.py
\* has no "probability", so ml_prob is the default 0.5.
FallbackAnalysis(min_temp_forecast, frost_hours_count, ml_prediction) ==
    LET ml_prob == Get(SubDict(ml_prediction, "prediction"), "probability", 50)
        nivel_riesgo ==
            IF min_temp_forecast # None /\ min_temp_forecast < -20 THEN "muy_alto"
            ELSE IF min_temp_forecast # None /\ min_temp_forecast < 0 THEN "alto"
            ELSE IF frost_hours_count > 3 \/ ml_prob > 60 THEN "alto"
            ELSE IF frost_hours_count > 0 \/ ml_prob > 30 THEN "medio"
            ELSE "bajo"
        prob_estimada ==
            IF min_temp_forecast # None /\ min_temp_forecast < -20 THEN 90
            ELSE IF min_temp_forecast # None /\ min_temp_forecast < 0 THEN 75
            ELSE ml_prob
    IN [nivel_riesgo_combinado |-> JStr(nivel_riesgo),
        probabilidad_estimada |-> JInt(prob_estimada)]

\* The response of predict_enhanced_v2 (api_v2.py lines 326-379) as the
\* payload of an alert: the prediction, the advisory's analysis, the
\* conditions.
AlertPayload(ml_prediction, analysis, conditions) ==
    Available @@ [ml_prediction_v2 |-> ml_prediction, ai_analysis |-> analysis]
              @@ conditions

\* The forecast summaries the rule-based analysis is computed from.
MinTempForecasts == {None, -30, -10, 20}
FrostHoursCounts == {0, 1, 4}

\* An alert is sent for a prediction whose advisory analysis came from the
\* rule-based fallback.
AdvisoryNext ==
    \E phone_number \in Phones, l \in ClassNames, delivered \in BOOLEAN,
       min_temp_forecast \in MinTempForecasts, frost_hours_count \in FrostHoursCounts,
       conditions \in {Conditions, EmptyDict} :
        LET ml_prediction == [prediction |-> [class_name |-> JStr(l)]]
        IN /\ SendFrostAlert(phone_number,
                             AlertPayload(ml_prediction,
                                          FallbackAnalysis(min_temp_forecast,
                                                           frost_hours_count,
                                                           ml_prediction),
                                          conditions),
                             JStr("?"), JStr("?"), delivered)
           /\ UNCHANGED <<pipeVars, geoVars, apiVars, cacheVars>>

\* ------------------------------------------------------ SMS endpoints
\* The methods of SMSService that build a message.
SmsServiceMethods ==
    {"_build_prediction_message_minimal", "_build_prediction_message_no_emoji",
     "_build_unavailable_message_minimal", "_build_unavailable_message_no_emoji"}

\* Phone numbers a client posts: nine digits, plain, with blanks and with
\* other characters; the number with its country prefix; eight digits; no
\* digit; blanks only.
EndpointPhones ==
    {Digits9, <<" ">> \o Digits9 \o <<" ">>,
     <<"9", "8", "7", " ", "6", "5", "4", "-", "3", "2", "1">>,
     Prefix51 \o Digits9, Tail(Digits9), <<"a", "b", "c">>, <<" ", " ">>}

\* The JSON bodies a client posts: phone_number missing, null or a text;
\* prediction_data missing, empty or a payload.
Bodies ==
    {pn @@ pd :
        pn \in OptionalKey("phone_number", {JNone} \cup {JStr(p) : p \in EndpointPhones}),
        pd \in OptionalKey("prediction_data",
                           {EmptyDict} \cup LimitPayloads
                           \cup {u \in UnavailablePayloads :
                                    /\ "requested_location" \in DOMAIN u
                                    /\ "prediction_available" \in DOMAIN u
                                    /\ "distance_from_station_km" \in DOMAIN u
                                    /\ u.distance_from_station_km \in {JNum(7114), JNone}})}

NoHttp ==
    [endpoint |-> "", data |-> EmptyDict, status |-> 0, transport_calls |-> 0,
     to |-> <<>>, message |-> NotBuilt, length |-> None, within_limit |-> FALSE,
     estimated_segments |-> None]

\* send_alert_sms, lines 417-481.  An exception raised before the service
\* is called (None.strip()) leaves through the except clause: 500.
SendAlertSms(data, weather_temp, weather_temp_again, delivered) ==
    LET phone_number == Get(data, "phone_number", JStr(<<>>))
        prediction_data == Get(data, "prediction_data", JNone)
        \* phone.strip() is empty
        blank == \A i \in 1..Len(phone_number.s) : phone_number.s[i] \in {" ", "\t", "\n"}
        phone_digits ==
            SelectSeq(phone_number.s,
                      LAMBDA c : c \in {"0", "1", "2", "3", "4", "5", "6", "7", "8", "9"})
        Answer(status) ==
            /\ http' = [NoHttp EXCEPT !.endpoint = "send-alert-sms", !.data = data,
                                      !.status = status]
            /\ UNCHANGED smsVars
    IN IF data = EmptyDict THEN Answer(400)
       ELSE IF phone_number = JNone THEN Answer(500)
       ELSE IF blank THEN Answer(400)
       ELSE IF prediction_data \in {JNone, EmptyDict} THEN Answer(400)
       ELSE IF Len(phone_digits) # 9 THEN Answer(400)
       ELSE IF ~sms_initialized THEN Answer(503)
       ELSE /\ SendFrostAlert(Prefix51 \o phone_digits, prediction_data, weather_temp,
                              weather_temp_again, delivered)
            /\ http' = [NoHttp EXCEPT
                           !.endpoint = "send-alert-sms", !.data = data,
                           !.status = IF call'.result.success THEN 200 ELSE 500,
                           !.transport_calls = IF call'.handed THEN 1 ELSE 0,
                           !.to = call'.to]

\* test_sms_length, lines 484-506.  The builder is looked up on the service:
\* a method the service does not have raises AttributeError, as does .get on
\* a missing prediction_data, and the except clause answers 500.
TestSmsLength(data, weather_temp) ==
    LET prediction_data == Get(data, "prediction_data", JNone)
        is_available == Truthy(Get(prediction_data, "prediction_available", JBool(FALSE)))
        method == IF is_available THEN "_build_prediction_message_short"
                  ELSE "_build_unavailable_message_short"
        message == CASE method = "_build_prediction_message_minimal" ->
                            PredictionMessageMinimal(prediction_data)
                     [] method = "_build_prediction_message_no_emoji" ->
                            PredictionMessageNoEmoji(prediction_data)
                     [] method = "_build_unavailable_message_minimal" ->
                            UnavailableMessageMinimal(prediction_data, weather_temp)
                     [] method = "_build_unavailable_message_no_emoji" ->
                            UnavailableMessageNoEmoji(prediction_data, weather_temp)
                     [] OTHER -> Raised
    IN /\ http' =
            IF prediction_data = JNone \/ method \notin SmsServiceMethods
               \/ message = Raised
            THEN [NoHttp EXCEPT !.endpoint = "test-sms-length", !.data = data,
                                !.status = 500]
            ELSE [NoHttp EXCEPT !.endpoint = "test-sms-length", !.data = data,
                                !.status = 200, !.message = message,
                                !.length = Length(message),
                                !.within_limit = (Length(message) <= SmsHardCeiling),
                                !.estimated_segments = (Length(message) \div SmsSoftLimit) + 1]
       /\ UNCHANGED smsVars

ApiInit == http = NoHttp

ApiNext ==
    \E data \in Bodies :
        \/ \E delivered \in BOOLEAN :
             \E weather_temp \in WeatherAnswers(
                    AsksWeather(Get(data, "prediction_data", JNone))) :
                \E weather_temp_again \in WeatherAnswers(
                       AsksWeatherAgain(Get(data, "prediction_data", JNone), weather_temp)) :
                   /\ SendAlertSms(data, weather_temp, weather_temp_again, delivered)
                   /\ UNCHANGED <<pipeVars, geoVars, cacheVars>>
        \/ \E weather_temp \in WeatherAnswers(
                  AsksWeather(Get(data, "prediction_data", JNone))) :
             /\ TestSmsLength(data, weather_temp)
             /\ UNCHANGED <<pipeVars, geoVars, cacheVars>>

\* ------------------------------------------------- double arithmetic
\* A non-negative IEEE-754 double is [m, e]: the value is m * 2^e, where m
\* is a whole number of exactly MantBits bits (or zero), written as a
\* sequence of limbs of LimbBits bits, least significant first, without
\* leading zero limbs.
LimbBits == 13
MantBits == 53

Limb(N, i) == IF i >= 1 /\ i <= Len(N) THEN N[i] ELSE 0

RECURSIVE Trim(_)
Trim(N) == IF N # <<>> /\ N[Len(N)] = 0 THEN Trim(SubSeq(N, 1, Len(N) - 1)) ELSE N

RECURSIVE Propagate(_, _, _)
\* The limbs of the number whose i-th limb and above are raw[i..], plus carry.
Propagate(raw, i, carry) ==
    LET t == Limb(raw, i) + carry
    IN IF i > Len(raw) /\ carry = 0 THEN <<>>
       ELSE <<t % 2^LimbBits>> \o Propagate(raw, i + 1, t \div 2^LimbBits)

BigAdd(X, Y) ==
    Trim(Propagate([i \in 1..(IF Len(X) >= Len(Y) THEN Len(X) ELSE Len(Y)) |->
                        Limb(X, i) + Limb(Y, i)], 1, 0))

\* The mantissas multiplied here have five limbs at most.
BigMul(X, Y) ==
    LET Conv(k) == Limb(X, 1) * Limb(Y, k) + Limb(X, 2) * Limb(Y, k - 1)
                   + Limb(X, 3) * Limb(Y, k - 2) + Limb(X, 4) * Limb(Y, k - 3)
                   + Limb(X, 5) * Limb(Y, k - 4)
    IN IF X = <<>> \/ Y = <<>> THEN <<>>
       ELSE Trim(Propagate([k \in 1..(Len(X) + Len(Y) - 1) |-> Conv(k)], 1, 0))

\* N * 2^k
ShiftLeft(N, k) ==
    LET d == k \div LimbBits
        r == k % LimbBits
    IN Trim([i \in 1..(Len(N) + d + 1) |->
                ((Limb(N, i - d) * 2^r) % 2^LimbBits)
                + ((Limb(N, i - d - 1) * 2^r) \div 2^LimbBits)])

\* N \div 2^k
ShiftRight(N, k) ==
    LET d == k \div LimbBits
        r == k % LimbBits
        n == IF Len(N) > d THEN Len(N) - d ELSE 0
    IN Trim([i \in 1..n |->
                (Limb(N, i + d) \div 2^r)
                + (Limb(N, i + d + 1) % 2^r) * 2^(LimbBits - r)])

Zero == [m |-> <<>>, e |-> 0]

\* The double nearest to N * 2^e, ties to the even mantissa.
RoundToDouble(N, e) ==
    LET BitLen(X) ==
            IF X = <<>> THEN 0
            ELSE LimbBits * (Len(X) - 1)
                 + (CHOOSE b \in 1..LimbBits : 2^(b - 1) <= X[Len(X)] /\ X[Len(X)] < 2^b)
        \* bit j of X, bit 0 the least significant
        Bit(X, j) == (Limb(X, (j \div LimbBits) + 1) \div 2^(j % LimbBits)) % 2
    IN
    IF N = <<>> THEN Zero
    ELSE LET len == BitLen(N)
         IN IF len <= MantBits
            THEN [m |-> ShiftLeft(N, MantBits - len), e |-> e - (MantBits - len)]
            ELSE LET k == len - MantBits
                     q == ShiftRight(N, k)
                     up == /\ Bit(N, k - 1) = 1
                           /\ \/ \E j \in 0..(k - 2) : Bit(N, j) = 1
                              \/ Bit(q, 0) = 1
                     rounded == IF up THEN BigAdd(q, <<1>>) ELSE q
                 IN IF BitLen(rounded) > MantBits
                    THEN [m |-> ShiftRight(rounded, 1), e |-> e + k + 1]
                    ELSE [m |-> rounded, e |-> e + k]

\* x * y
FMul(x, y) == RoundToDouble(BigMul(x.m, y.m), x.e + y.e)

\* x + y; an operand below a quarter of the other's last place is absorbed.
FAdd(x, y) ==
    IF x.m = <<>> THEN y
    ELSE IF y.m = <<>> THEN x
    ELSE LET hi == IF x.e >= y.e THEN x ELSE y
             lo == IF x.e >= y.e THEN y ELSE x
             d == hi.e - lo.e
         IN IF d > MantBits + 2 THEN hi
            ELSE RoundToDouble(BigAdd(ShiftLeft(hi.m, d), lo.m), lo.e)

\* x > 1.0
GreaterThanOne(x) ==
    LET One == [m |-> ShiftLeft(<<1>>, MantBits - 1), e |-> 1 - MantBits]
    IN x.m # <<>> /\ (x.e > One.e \/ (x.e = One.e /\ x.m # One.m))

\* The points distances are measured between: coordinates in units of
\* 0.00001 degree.  Arctic and Antarctic, Baikal and Patagonia, Huayao and
\* HuayaoAntipode, Gulf and Pacific, and the poles are antipodal pairs.
GeoPoints ==
    {[name |-> "Huayao", lat |-> -1203830, lon |-> -7532280],
     [name |-> "HuayaoAntipode", lat |-> 1203830, lon |-> 10467720],
     [name |-> "Puno", lat |-> -1584020, lon |-> -7002190],
     [name |-> "Gulf", lat |-> 0, lon |-> 0],
     [name |-> "Pacific", lat |-> 0, lon |-> 18000000],
     [name |-> "Arctic", lat |-> 8200000, lon |-> 0],
     [name |-> "Antarctic", lat |-> -8200000, lon |-> -18000000],
     [name |-> "NorthPole", lat |-> 9000000, lon |-> 0],
     [name |-> "SouthPole", lat |-> -9000000, lon |-> 0],
     [name |-> "Baikal", lat |-> 5105790, lon |-> 11537490],
     [name |-> "Patagonia", lat |-> -5105790, lon |-> -6462510]}

\* ------------------------------------------------- calculate_distance
\* math.cos(math.radians(lat)) and math.sin(math.radians(x2 - x1) / 2) ** 2
\* as the C library computes them, for the coordinates of GeoPoints, in
\* units of 0.00001 degree: CosTable and HalfSinSqTable.
CosTable ==
    (-9000000 :> [m |-> <<7175, 6306, 2444, 844, 1>>, e |-> -106])
    @@ (-8200000 :> [m |-> <<7706, 5228, 6949, 928, 1>>, e |-> -55])
    @@ (-5105790 :> [m |-> <<981, 1751, 7479, 2105, 1>>, e |-> -53])
    @@ (-1584020 :> [m |-> <<6931, 3869, 6928, 7569, 1>>, e |-> -53])
    @@ (-1203830 :> [m |-> <<6428, 4842, 5649, 7831, 1>>, e |-> -53])
    @@ (0 :> [m |-> <<0, 0, 0, 0, 1>>, e |-> -52])
    @@ (1203830 :> [m |-> <<6428, 4842, 5649, 7831, 1>>, e |-> -53])
    @@ (5105790 :> [m |-> <<981, 1751, 7479, 2105, 1>>, e |-> -53])
    @@ (8200000 :> [m |-> <<7706, 5228, 6949, 928, 1>>, e |-> -55])
    @@ (9000000 :> [m |-> <<7175, 6306, 2444, 844, 1>>, e |-> -106])

HalfSinSqTable ==
    (<<-18000000, -18000000>> :> [m |-> <<>>, e |-> 0])
    @@ (<<-18000000, -7532280>> :> [m |-> <<2422, 1537, 5175, 2075, 1>>, e |-> -53])
    @@ (<<-18000000, -7002190>> :> [m |-> <<3071, 5856, 7261, 2798, 1>>, e |-> -53])
    @@ (<<-18000000, -6462510>> :> [m |-> <<3580, 5845, 4869, 3510, 1>>, e |-> -53])
    @@ (<<-18000000, 0>> :> [m |-> <<0, 0, 0, 0, 1>>, e |-> -52])
    @@ (<<-18000000, 10467720>> :> [m |-> <<3354, 5117, 6033, 4040, 1>>, e |-> -54])
    @@ (<<-18000000, 11537490>> :> [m |-> <<1029, 4693, 6644, 1170, 1>>, e |-> -54])
    @@ (<<-18000000, 18000000>> :> [m |-> <<7496, 3154, 5025, 1775, 1>>, e |-> -158])
    @@ (<<-9000000, -9000000>> :> [m |-> <<>>, e |-> 0])
    @@ (<<-9000000, -8200000>> :> [m |-> <<411, 7895, 5484, 2012, 1>>, e |-> -60])
    @@ (<<-9000000, -5105790>> :> [m |-> <<7836, 1710, 2541, 6371, 1>>, e |-> -56])
    @@ (<<-9000000, -1584020>> :> [m |-> <<4029, 5275, 7376, 3719, 1>>, e |-> -54])
    @@ (<<-9000000, -1203830>> :> [m |-> <<7238, 5955, 7068, 4774, 1>>, e |-> -54])
    @@ (<<-9000000, 0>> :> [m |-> <<8190, 8191, 8191, 8191, 1>>, e |-> -54])
    @@ (<<-9000000, 1203830>> :> [m |-> <<478, 5214, 4657, 1708, 1>>, e |-> -53])
    @@ (<<-9000000, 5105790>> :> [m |-> <<1069, 2858, 4802, 6371, 1>>, e |-> -53])
    @@ (<<-9000000, 8200000>> :> [m |-> <<2620, 1218, 2261, 8112, 1>>, e |-> -53])
    @@ (<<-9000000, 9000000>> :> [m |-> <<0, 0, 0, 0, 1>>, e |-> -52])
    @@ (<<-8200000, -9000000>> :> [m |-> <<411, 7895, 5484, 2012, 1>>, e |-> -60])
    @@ (<<-8200000, -8200000>> :> [m |-> <<>>, e |-> 0])
    @@ (<<-8200000, -5105790>> :> [m |-> <<7632, 5173, 4939, 1134, 1>>, e |-> -56])
    @@ (<<-8200000, -1584020>> :> [m |-> <<3629, 5076, 6534, 1569, 1>>, e |-> -54])
    @@ (<<-8200000, -1203830>> :> [m |-> <<5467, 836, 423, 2578, 1>>, e |-> -54])
    @@ (<<-8200000, 0>> :> [m |-> <<6265, 4836, 6454, 5911, 1>>, e |-> -54])
    @@ (<<-8200000, 1203830>> :> [m |-> <<6854, 407, 7435, 576, 1>>, e |-> -53])
    @@ (<<-8200000, 5105790>> :> [m |-> <<2119, 5859, 8045, 5592, 1>>, e |-> -53])
    @@ (<<-8200000, 8200000>> :> [m |-> <<7617, 3449, 5372, 7874, 1>>, e |-> -53])
    @@ (<<-8200000, 9000000>> :> [m |-> <<2620, 1218, 2261, 8112, 1>>, e |-> -53])
    @@ (<<-7532280, -18000000>> :> [m |-> <<2422, 1537, 5175, 2075, 1>>, e |-> -53])
    @@ (<<-7532280, -7532280>> :> [m |-> <<>>, e |-> 0])
    @@ (<<-7532280, -7002190>> :> [m |-> <<1798, 1784, 7, 777, 1>>, e |-> -61])
    @@ (<<-7532280, -6462510>> :> [m |-> <<2676, 5248, 8150, 919, 1>>, e |-> -59])
    @@ (<<-7532280, 0>> :> [m |-> <<3346, 5117, 6033, 4040, 1>>, e |-> -54])
    @@ (<<-7532280, 10467720>> :> [m |-> <<0, 0, 0, 0, 1>>, e |-> -52])
    @@ (<<-7532280, 11537490>> :> [m |-> <<8151, 5293, 5120, 8049, 1>>, e |-> -53])
    @@ (<<-7532280, 18000000>> :> [m |-> <<2421, 1537, 5175, 2075, 1>>, e |-> -53])
    @@ (<<-7002190, -18000000>> :> [m |-> <<3071, 5856, 7261, 2798, 1>>, e |-> -53])
    @@ (<<-7002190, -7532280>> :> [m |-> <<1798, 1784, 7, 777, 1>>, e |-> -61])
    @@ (<<-7002190, -7002190>> :> [m |-> <<>>, e |-> 0])
    @@ (<<-7002190, -6462510>> :> [m |-> <<4951, 6885, 1764, 1104, 1>>, e |-> -61])
    @@ (<<-7002190, 0>> :> [m |-> <<2050, 4671, 1860, 2594, 1>>, e |-> -54])
    @@ (<<-7002190, 10467720>> :> [m |-> <<248, 7961, 7903, 8156, 1>>, e |-> -53])
    @@ (<<-7002190, 11537490>> :> [m |-> <<846, 869, 5625, 8155, 1>>, e |-> -53])
    @@ (<<-7002190, 18000000>> :> [m |-> <<3071, 5856, 7261, 2798, 1>>, e |-> -53])
    @@ (<<-6462510, -18000000>> :> [m |-> <<3580, 5845, 4869, 3510, 1>>, e |-> -53])
    @@ (<<-6462510, -7532280>> :> [m |-> <<2676, 5248, 8150, 919, 1>>, e |-> -59])
    @@ (<<-6462510, -7002190>> :> [m |-> <<4951, 6885, 1764, 1104, 1>>, e |-> -61])
    @@ (<<-6462510, -6462510>> :> [m |-> <<>>, e |-> 0])
    @@ (<<-6462510, 0>> :> [m |-> <<1033, 4693, 6644, 1170, 1>>, e |-> -54])
    @@ (<<-6462510, 10467720>> :> [m |-> <<8151, 5293, 5120, 8049, 1>>, e |-> -53])
    @@ (<<-6462510, 11537490>> :> [m |-> <<0, 0, 0, 0, 1>>, e |-> -52])
    @@ (<<-6462510, 18000000>> :> [m |-> <<3580, 5845, 4869, 3510, 1>>, e |-> -53])
    @@ (<<-5105790, -9000000>> :> [m |-> <<7836, 1710, 2541, 6371, 1>>, e |-> -56])
    @@ (<<-5105790, -8200000>> :> [m |-> <<7632, 5173, 4939, 1134, 1>>, e |-> -56])
    @@ (<<-5105790, -5105790>> :> [m |-> <<>>, e |-> 0])
    @@ (<<-5105790, -1584020>> :> [m |-> <<3564, 4374, 2168, 3803, 1>>, e |-> -56])
    @@ (<<-5105790, -1203830>> :> [m |-> <<5193, 2540, 605, 6427, 1>>, e |-> -56])
    @@ (<<-5105790, 0>> :> [m |-> <<6231, 4689, 1425, 3980, 1>>, e |-> -55])
    @@ (<<-5105790, 1203830>> :> [m |-> <<4690, 7420, 2790, 778, 1>>, e |-> -54])
    @@ (<<-5105790, 5105790>> :> [m |-> <<5674, 209, 3310, 1719, 1>>, e |-> -53])
    @@ (<<-5105790, 8200000>> :> [m |-> <<2119, 5859, 8045, 5592, 1>>, e |-> -53])
    @@ (<<-5105790, 9000000>> :> [m |-> <<1069, 2858, 4802, 6371, 1>>, e |-> -53])
    @@ (<<-1584020, -9000000>> :> [m |-> <<4029, 5275, 7376, 3719, 1>>, e |-> -54])
    @@ (<<-1584020, -8200000>> :> [m |-> <<3629, 5076, 6534, 1569, 1>>, e |-> -54])
    @@ (<<-1584020, -5105790>> :> [m |-> <<3564, 4374, 2168, 3803, 1>>, e |-> -56])
    @@ (<<-1584020, -1584020>> :> [m |-> <<>>, e |-> 0])
    @@ (<<-1584020, -1203830>> :> [m |-> <<1261, 3373, 4346, 1038, 1>>, e |-> -62])
    @@ (<<-1584020, 0>> :> [m |-> <<3791, 3618, 3832, 1762, 1>>, e |-> -58])
    @@ (<<-1584020, 1203830>> :> [m |-> <<4021, 2057, 530, 7020, 1>>, e |-> -57])
    @@ (<<-1584020, 5105790>> :> [m |-> <<3805, 5412, 3677, 1763, 1>>, e |-> -54])
    @@ (<<-1584020, 8200000>> :> [m |-> <<3120, 724, 3901, 1117, 1>>, e |-> -53])
    @@ (<<-1584020, 9000000>> :> [m |-> <<2081, 5554, 407, 2236, 1>>, e |-> -53])
    @@ (<<-1203830, -9000000>> :> [m |-> <<7238, 5955, 7068, 4774, 1>>, e |-> -54])
    @@ (<<-1203830, -8200000>> :> [m |-> <<5467, 836, 423, 2578, 1>>, e |-> -54])
    @@ (<<-1203830, -5105790>> :> [m |-> <<5193, 2540, 605, 6427, 1>>, e |-> -56])
    @@ (<<-1203830, -1584020>> :> [m |-> <<1261, 3373, 4346, 1038, 1>>, e |-> -62])
    @@ (<<-1203830, -1203830>> :> [m |-> <<>>, e |-> 0])
    @@ (<<-1203830, 0>> :> [m |-> <<7311, 678, 7629, 3337, 1>>, e |-> -59])
    @@ (<<-1203830, 1203830>> :> [m |-> <<5151, 5579, 1232, 3211, 1>>, e |-> -57])
    @@ (<<-1203830, 5105790>> :> [m |-> <<4690, 7420, 2790, 778, 1>>, e |-> -54])
    @@ (<<-1203830, 8200000>> :> [m |-> <<6854, 407, 7435, 576, 1>>, e |-> -53])
    @@ (<<-1203830, 9000000>> :> [m |-> <<478, 5214, 4657, 1708, 1>>, e |-> -53])
    @@ (<<0, -18000000>> :> [m |-> <<0, 0, 0, 0, 1>>, e |-> -52])
    @@ (<<0, -9000000>> :> [m |-> <<8190, 8191, 8191, 8191, 1>>, e |-> -54])
    @@ (<<0, -8200000>> :> [m |-> <<6265, 4836, 6454, 5911, 1>>, e |-> -54])
    @@ (<<0, -7532280>> :> [m |-> <<3346, 5117, 6033, 4040, 1>>, e |-> -54])
    @@ (<<0, -7002190>> :> [m |-> <<2050, 4671, 1860, 2594, 1>>, e |-> -54])
    @@ (<<0, -6462510>> :> [m |-> <<1033, 4693, 6644, 1170, 1>>, e |-> -54])
    @@ (<<0, -5105790>> :> [m |-> <<6231, 4689, 1425, 3980, 1>>, e |-> -55])
    @@ (<<0, -1584020>> :> [m |-> <<3791, 3618, 3832, 1762, 1>>, e |-> -58])
    @@ (<<0, -1203830>> :> [m |-> <<7311, 678, 7629, 3337, 1>>, e |-> -59])
    @@ (<<0, 0>> :> [m |-> <<>>, e |-> 0])
    @@ (<<0, 1203830>> :> [m |-> <<7311, 678, 7629, 3337, 1>>, e |-> -59])
    @@ (<<0, 5105790>> :> [m |-> <<6231, 4689, 1425, 3980, 1>>, e |-> -55])
    @@ (<<0, 8200000>> :> [m |-> <<6265, 4836, 6454, 5911, 1>>, e |-> -54])
    @@ (<<0, 9000000>> :> [m |-> <<8190, 8191, 8191, 8191, 1>>, e |-> -54])
    @@ (<<0, 10467720>> :> [m |-> <<2422, 1537, 5175, 2075, 1>>, e |-> -53])
    @@ (<<0, 11537490>> :> [m |-> <<3580, 5845, 4869, 3510, 1>>, e |-> -53])
    @@ (<<0, 18000000>> :> [m |-> <<0, 0, 0, 0, 1>>, e |-> -52])
    @@ (<<1203830, -9000000>> :> [m |-> <<478, 5214, 4657, 1708, 1>>, e |-> -53])
    @@ (<<1203830, -8200000>> :> [m |-> <<6854, 407, 7435, 576, 1>>, e |-> -53])
    @@ (<<1203830, -5105790>> :> [m |-> <<4690, 7420, 2790, 778, 1>>, e |-> -54])
    @@ (<<1203830, -1584020>> :> [m |-> <<4021, 2057, 530, 7020, 1>>, e |-> -57])
    @@ (<<1203830, -1203830>> :> [m |-> <<5151, 5579, 1232, 3211, 1>>, e |-> -57])
    @@ (<<1203830, 0>> :> [m |-> <<7311, 678, 7629, 3337, 1>>, e |-> -59])
    @@ (<<1203830, 1203830>> :> [m |-> <<>>, e |-> 0])
    @@ (<<1203830, 5105790>> :> [m |-> <<5193, 2540, 605, 6427, 1>>, e |-> -56])
    @@ (<<1203830, 8200000>> :> [m |-> <<5467, 836, 423, 2578, 1>>, e |-> -54])
    @@ (<<1203830, 9000000>> :> [m |-> <<7238, 5955, 7068, 4774, 1>>, e |-> -54])
    @@ (<<5105790, -9000000>> :> [m |-> <<1069, 2858, 4802, 6371, 1>>, e |-> -53])
    @@ (<<5105790, -8200000>> :> [m |-> <<2119, 5859, 8045, 5592, 1>>, e |-> -53])
    @@ (<<5105790, -5105790>> :> [m |-> <<5674, 209, 3310, 1719, 1>>, e |-> -53])
    @@ (<<5105790, -1584020>> :> [m |-> <<3805, 5412, 3677, 1763, 1>>, e |-> -54])
    @@ (<<5105790, -1203830>> :> [m |-> <<4690, 7420, 2790, 778, 1>>, e |-> -54])
    @@ (<<5105790, 0>> :> [m |-> <<6231, 4689, 1425, 3980, 1>>, e |-> -55])
    @@ (<<5105790, 1203830>> :> [m |-> <<5193, 2540, 605, 6427, 1>>, e |-> -56])
    @@ (<<5105790, 5105790>> :> [m |-> <<>>, e |-> 0])
    @@ (<<5105790, 8200000>> :> [m |-> <<7632, 5173, 4939, 1134, 1>>, e |-> -56])
    @@ (<<5105790, 9000000>> :> [m |-> <<7836, 1710, 2541, 6371, 1>>, e |-> -56])
    @@ (<<8200000, -9000000>> :> [m |-> <<2620, 1218, 2261, 8112, 1>>, e |-> -53])
    @@ (<<8200000, -8200000>> :> [m |-> <<7617, 3449, 5372, 7874, 1>>, e |-> -53])
    @@ (<<8200000, -5105790>> :> [m |-> <<2119, 5859, 8045, 5592, 1>>, e |-> -53])
    @@ (<<8200000, -1584020>> :> [m |-> <<3120, 724, 3901, 1117, 1>>, e |-> -53])
    @@ (<<8200000, -1203830>> :> [m |-> <<6854, 407, 7435, 576, 1>>, e |-> -53])
    @@ (<<8200000, 0>> :> [m |-> <<6265, 4836, 6454, 5911, 1>>, e |-> -54])
    @@ (<<8200000, 1203830>> :> [m |-> <<5467, 836, 423, 2578, 1>>, e |-> -54])
    @@ (<<8200000, 5105790>> :> [m |-> <<7632, 5173, 4939, 1134, 1>>, e |-> -56])
    @@ (<<8200000, 8200000>> :> [m |-> <<>>, e |-> 0])
    @@ (<<8200000, 9000000>> :> [m |-> <<411, 7895, 5484, 2012, 1>>, e |-> -60])
    @@ (<<9000000, -9000000>> :> [m |-> <<0, 0, 0, 0, 1>>, e |-> -52])
    @@ (<<9000000, -8200000>> :> [m |-> <<2620, 1218, 2261, 8112, 1>>, e |-> -53])
    @@ (<<9000000, -5105790>> :> [m |-> <<1069, 2858, 4802, 6371, 1>>, e |-> -53])
    @@ (<<9000000, -1584020>> :> [m |-> <<2081, 5554, 407, 2236, 1>>, e |-> -53])
    @@ (<<9000000, -1203830>> :> [m |-> <<478, 5214, 4657, 1708, 1>>, e |-> -53])
    @@ (<<9000000, 0>> :> [m |-> <<8190, 8191, 8191, 8191, 1>>, e |-> -54])
    @@ (<<9000000, 1203830>> :> [m |-> <<7238, 5955, 7068, 4774, 1>>, e |-> -54])
    @@ (<<9000000, 5105790>> :> [m |-> <<7836, 1710, 2541, 6371, 1>>, e |-> -56])
    @@ (<<9000000, 8200000>> :> [m |-> <<411, 7895, 5484, 2012, 1>>, e |-> -60])
    @@ (<<9000000, 9000000>> :> [m |-> <<>>, e |-> 0])
    @@ (<<10467720, -18000000>> :> [m |-> <<3354, 5117, 6033, 4040, 1>>, e |-> -54])
    @@ (<<10467720, -7532280>> :> [m |-> <<0, 0, 0, 0, 1>>, e |-> -52])
    @@ (<<10467720, -7002190>> :> [m |-> <<248, 7961, 7903, 8156, 1>>, e |-> -53])
    @@ (<<10467720, -6462510>> :> [m |-> <<8151, 5293, 5120, 8049, 1>>, e |-> -53])
    @@ (<<10467720, 0>> :> [m |-> <<2422, 1537, 5175, 2075, 1>>, e |-> -53])
    @@ (<<10467720, 10467720>> :> [m |-> <<>>, e |-> 0])
    @@ (<<10467720, 11537490>> :> [m |-> <<2676, 5248, 8150, 919, 1>>, e |-> -59])
    @@ (<<10467720, 18000000>> :> [m |-> <<3346, 5117, 6033, 4040, 1>>, e |-> -54])
    @@ (<<11537490, -18000000>> :> [m |-> <<1029, 4693, 6644, 1170, 1>>, e |-> -54])
    @@ (<<11537490, -7532280>> :> [m |-> <<8151, 5293, 5120, 8049, 1>>, e |-> -53])
    @@ (<<11537490, -7002190>> :> [m |-> <<846, 869, 5625, 8155, 1>>, e |-> -53])
    @@ (<<11537490, -6462510>> :> [m |-> <<0, 0, 0, 0, 1>>, e |-> -52])
    @@ (<<11537490, 0>> :> [m |-> <<3580, 5845, 4869, 3510, 1>>, e |-> -53])
    @@ (<<11537490, 10467720>> :> [m |-> <<2676, 5248, 8150, 919, 1>>, e |-> -59])
    @@ (<<11537490, 11537490>> :> [m |-> <<>>, e |-> 0])
    @@ (<<11537490, 18000000>> :> [m |-> <<1033, 4693, 6644, 1170, 1>>, e |-> -54])
    @@ (<<18000000, -18000000>> :> [m |-> <<7496, 3154, 5025, 1775, 1>>, e |-> -158])
    @@ (<<18000000, -7532280>> :> [m |-> <<2421, 1537, 5175, 2075, 1>>, e |-> -53])
    @@ (<<18000000, -7002190>> :> [m |-> <<3071, 5856, 7261, 2798, 1>>, e |-> -53])
    @@ (<<18000000, -6462510>> :> [m |-> <<3580, 5845, 4869, 3510, 1>>, e |-> -53])
    @@ (<<18000000, 0>> :> [m |-> <<0, 0, 0, 0, 1>>, e |-> -52])
    @@ (<<18000000, 10467720>> :> [m |-> <<3346, 5117, 6033, 4040, 1>>, e |-> -54])
    @@ (<<18000000, 11537490>> :> [m |-> <<1033, 4693, 6644, 1170, 1>>, e |-> -54])
    @@ (<<18000000, 18000000>> :> [m |-> <<>>, e |-> 0])


\* math.sqrt(1 - a) with a > 1.
DomainError == [t |-> "ValueError", a |-> Zero]

\* calculate_distance, lines 54-64.  a is computed in double arithmetic;
\* R * 2 * atan2(sqrt(a), sqrt(1 - a)) is a function of a, zero for a = 0
\* and positive otherwise, and is left as the a it is computed from.
calculate_distance(p1, p2) ==
    LET a == FAdd(HalfSinSqTable[<<p1.lat, p2.lat>>],
                  FMul(FMul(CosTable[p1.lat], CosTable[p2.lat]),
                       HalfSinSqTable[<<p1.lon, p2.lon>>]))
    IN IF GreaterThanOne(a) THEN DomainError ELSE [t |-> "km", a |-> a]

NoMeasure == [from |-> "", to |-> "", result |-> [t |-> "none", a |-> Zero]]

\* A call of calculate_distance on two points.
Measure(p1, p2) ==
    measured' = [from |-> p1.name, to |-> p2.name, result |-> calculate_distance(p1, p2)]

GeoInit == measured = NoMeasure

GeoNext ==
    \E p1 \in GeoPoints, p2 \in GeoPoints :
        Measure(p1, p2) /\ UNCHANGED <<pipeVars, smsVars, apiVars, cacheVars>>

\* ------------------------------------------------ the weather cache
\* The calls of the weather service: get_current_weather(latitude, longitude)
\* and get_hourly_forecast(latitude, longitude, hours).
WeatherCalls ==
    {[method |-> "current", latitude |-> StationLoc.lat, longitude |-> StationLoc.lon,
      hours |-> 0],
     [method |-> "hourly", latitude |-> StationLoc.lat, longitude |-> StationLoc.lon,
      hours |-> 48]}

\* Lines 30 and 95: the key of a call; the text of a number names the number.
cache_key(args) ==
    IF args.method = "current"
    THEN "current_" \o ToString(args.latitude) \o "_" \o ToString(args.longitude)
    ELSE "hourly_" \o ToString(args.latitude) \o "_" \o ToString(args.longitude)
                   \o "_" \o ToString(args.hours)

CacheKeys == {cache_key(args) : args \in WeatherCalls}

\* No data: the None _get_from_cache returns.  A result of the provider is
\* known by the number of the fetch that brought it; a result is a dictionary
\* with "source" or "error" in it, never an empty one.
NoData == [error |-> FALSE, n |-> 0]
NoEntry == [cached_time |-> None, data |-> NoData]

\* A variant of get_from_cache that serves an entry at the age of 10 minutes.
get_from_cache_inclusive(key) ==
    IF cache[key] # NoEntry /\ minute - cache[key].cached_time <= CacheMinutes
    THEN cache[key].data ELSE NoData

\* _get_from_cache, lines 300-306.
get_from_cache(key) ==
    IF cache[key] # NoEntry /\ minute - cache[key].cached_time < CacheMinutes
    THEN cache[key].data ELSE NoData

Idle == [state |-> "idle", key |-> "", began |-> 0, after |-> 0, found |-> NoEntry]

\* WeatherService.__init__, lines 20-23.
CacheInit ==
    /\ cache = [key \in CacheKeys |-> NoEntry]
    /\ minute = 0
    /\ provider_fetches = 0
    /\ lookup = [w \in Workers |-> Idle]
    /\ done = <<>>

\* The call returns: began and ended are the clock at its first and last
\* step, after the number of calls that had returned when it began, found the
\* entry of its key at its lookup.
Returned(w, l, fetched, saved, result) ==
    /\ done' = Append(done, [key |-> l.key, began |-> l.began, ended |-> minute,
                             after |-> l.after, found |-> l.found,
                             fetched |-> fetched, saved |-> saved, result |-> result])
    /\ lookup' = [lookup EXCEPT ![w] = Idle]

\* get_current_weather, lines 30-33, and get_hourly_forecast, lines 95-98:
\* the lookup; a cached result is returned, otherwise the provider is asked.
CallBegin(w, args) ==
    LET key == cache_key(args)
        cached == get_from_cache(key)
        l == [state |-> "fetching", key |-> key, began |-> minute, after |-> Len(done),
              found |-> cache[key]]
    IN /\ lookup[w].state = "idle"
       /\ Len(done) + Cardinality({v \in Workers : lookup[v].state = "fetching"}) < MaxCalls
       /\ IF cached # NoData
          THEN Returned(w, l, FALSE, FALSE, cached)
          ELSE lookup' = [lookup EXCEPT ![w] = l] /\ UNCHANGED done
       /\ UNCHANGED <<cache, minute, provider_fetches>>

\* Lines 35-88 and 100-193: requests.get answers or raises; a result is saved
\* under the key with the time of the save (line 310), an error is returned
\* unsaved.
CallFetch(w) ==
    /\ lookup[w].state = "fetching"
    /\ provider_fetches' = provider_fetches + 1
    /\ \E error \in BOOLEAN :
          LET result == [error |-> error, n |-> provider_fetches + 1]
          IN /\ cache' = IF error THEN cache
                         ELSE [cache EXCEPT ![lookup[w].key] =
                                  [cached_time |-> minute, data |-> result]]
             /\ Returned(w, lookup[w], TRUE, ~error, result)
    /\ UNCHANGED minute

\* Time passes.
Tick ==
    /\ minute < MaxMinutes
    /\ minute' = minute + TickMinutes
    /\ UNCHANGED <<cache, provider_fetches, lookup, done>>

CacheNext ==
    \/ \E w \in Workers, args \in WeatherCalls :
          CallBegin(w, args) /\ UNCHANGED <<pipeVars, smsVars, geoVars, apiVars>>
    \/ \E w \in Workers :
          CallFetch(w) /\ UNCHANGED <<pipeVars, smsVars, geoVars, apiVars>>
    \/ Tick /\ UNCHANGED <<pipeVars, smsVars, geoVars, apiVars>>

\* ------------------------------------------------------ specifications
Init == PipeInit /\ SmsInit /\ GeoInit /\ ApiInit /\ CacheInit

Next == PipeNext

\* The service started with the package train_model_v2 saves.
TrainedInit == Init /\ model_package = TrainedPackage

\* Every interleaving of two worker threads over a few requests.
Spec == Init /\ [][Next]_vars

\* A long stream of requests for the station's location handled by the first
\* worker, the second worker handling the first request of the run.
SpecLong == TrainedInit /\ [][LongNext]_vars

\* Requests for every location and every outcome of the weather fetch, the
\* second worker suspended only at the steps of ParkPoints while the first runs.
ParkedNext ==
    \E w \in Workers :
        \/ LongSched(w) /\ Begin(w) /\ UNCHANGED <<model_package, nonPipeVars>>
        \/ LongSched(w) /\ StoreCheck(w) /\ UNCHANGED <<request, model_package, nonPipeVars>>
        \/ LongSched(w) /\ StoreCreate(w) /\ UNCHANGED <<request, model_package, nonPipeVars>>
        \/ LongSched(w) /\ StoreEntry(w) /\ UNCHANGED <<request, model_package, nonPipeVars>>
        \/ LongSched(w) /\ StoreAppend(w) /\ UNCHANGED <<request, model_package, nonPipeVars>>
        \/ LongSched(w) /\ PrepareBase(w) /\ UNCHANGED <<request, model_package, nonPipeVars>>
        \/ LongSched(w) /\ LagIndex(w) /\ UNCHANGED <<request, model_package, nonPipeVars>>
        \/ LongSched(w) /\ LagRead(w) /\ UNCHANGED <<request, model_package, nonPipeVars>>
        \/ LongSched(w) /\ Respond(w) /\ UNCHANGED <<request, model_package, nonPipeVars>>

SpecParked == Init /\ [][ParkedNext]_vars

\* Alerts sent for payloads of every shape.
SpecSMS == TrainedInit /\ [][SmsNext]_vars

\* Distances measured between the points of GeoPoints.
SpecGeo == TrainedInit /\ [][GeoNext]_vars

\* Requests to the two SMS endpoints.
SpecApi == TrainedInit /\ [][ApiNext]_vars

\* Alerts for predictions with a rule-based advisory analysis.
SpecAdvisory == TrainedInit /\ [][AdvisoryNext]_vars

\* Calls of the weather service from two threads as the clock advances.
SpecCache == TrainedInit /\ [][CacheNext]_vars

\* ------------------------------------------------------------ claims
Range(seq) == {seq[i] : i \in 1..Len(seq)}

\* The history the store holds for a key.
History(k) == HistOf(weather_history[k])

\* The workers whose handler has synthesized all its features.
Synthesized == {w \in Workers : pc[w] = "predict"}

\* C1: for every key and any number N of recorded observations the history
\* never holds more than 24 entries, and once N > 24 it holds exactly the 24
\* most recently recorded observations, in insertion order.
C1_RingBuffer ==
    \A k \in Keys :
        LET N == Len(log[k])
        IN /\ Len(History(k)) <= HistoryMaxLen
           /\ N > HistoryMaxLen => History(k) = SubSeq(log[k], N - HistoryMaxLen + 1, N)

\* C2: when the history holds at least h entries, the lag-h feature of each
\* variable is the variable's value in the observation recorded h steps
\* before the request's own observation.
C2_LagIsHStepsBack ==
    \A w \in Synthesized : \A i \in 1..Len(LagHours) :
        LET h == LagHours[i]
            f == frame[w]
        IN (f.seen[h] >= h /\ f.pos > h) =>
              \A v \in BaseVars :
                  f.features[LagName(v, h)] = log[f.location_key][f.pos - h][v]

\* C3: when the history holds fewer than h entries, every lag-h feature is
\* the request's present-time value of the same variable.
C3_ShortHistoryUsesPresent ==
    \A w \in Synthesized : \A i \in 1..Len(LagHours) :
        LET h == LagHours[i]
            f == frame[w]
        IN f.seen[h] < h =>
              \A v \in BaseVars : f.features[LagName(v, h)] = f.features[v]

\* C4: a request snapshots the history and synthesizes its lag features
\* before it appends its own observation, so that no lag feature is read
\* from the entry the request itself recorded.
C4_SnapshotBeforeAppend ==
    \A w \in Workers :
        /\ pc[w] \in {"lag_idx", "lag_read", "predict"} => frame[w].pos = 0
        /\ \A h \in DOMAIN frame[w].from : frame[w].from[h] # frame[w].entry.timestamp

\* C5: once the concurrent requests of a key have completed, the key's
\* history holds every observation they recorded (none is lost; here fewer
\* than 24 observations are recorded, so none is evicted either).
C5_NoLostObservation ==
    (\A w \in Workers : pc[w] = "idle") =>
        \A k \in Keys : Len(log[k]) <= HistoryMaxLen => Range(log[k]) \subseteq Range(History(k))

\* C6: whatever the history length, feature synthesis returns exactly
\* 5 x (1 + 3) = 20 entries: the five variables under their base names and
\* one <var>_lag_<h>h entry per variable and horizon.
C6_FeatureShape ==
    \A w \in Synthesized :
        /\ DOMAIN frame[w].features = FeatureNames
        /\ Cardinality(DOMAIN frame[w].features) = 5 * (1 + 3)

\* A request synthesized with a history at least as long as the 6 h horizon
\* and shorter than the 24 h one.
C6_Witness ==
    \E w \in Synthesized :
        /\ frame[w].seen[6] >= 6
        /\ frame[w].seen[24] < 24
        /\ Cardinality(DOMAIN frame[w].features) = 20

\* ---------------------------------------------------- claims on alerts
\* The severity order of the four-level vocabulary.
Severity(label) ==
    CASE label = "Sin Riesgo" -> 0
      [] label = "Riesgo" -> 1
      [] label = "Moderada" -> 2
      [] label = "Severa" -> 3

Max(a, b) == IF a >= b THEN a ELSE b

InVocabulary(x) ==
    x.t = "str" /\ x.s \in {"Sin Riesgo", "Riesgo", "Moderada", "Severa"}

\* The payload carries a primary class.
HasPrimary(data) ==
    /\ "ml_prediction_v2" \in DOMAIN data
    /\ data.ml_prediction_v2 # JNone
    /\ "prediction" \in DOMAIN data.ml_prediction_v2
    /\ "class_name" \in DOMAIN data.ml_prediction_v2.prediction

Primary(data) == data.ml_prediction_v2.prediction.class_name

\* The payload's advisory analysis carries a classification field.
HasAdvisoryField(data) ==
    /\ "ai_analysis" \in DOMAIN data
    /\ data.ai_analysis # JNone
    /\ "clasificacion_final" \in DOMAIN data.ai_analysis

Advisory(data) == data.ai_analysis.clasificacion_final

\* No advisory classification: the field is missing, None or empty.
AdvisoryAbsent(data) ==
    \/ "ai_analysis" \notin DOMAIN data
    \/ /\ data.ai_analysis # JNone
       /\ "clasificacion_final" \notin DOMAIN data.ai_analysis
    \/ /\ HasAdvisoryField(data)
       /\ Advisory(data) \in {JNone, JStr("")}

\* The last call computed a combined classification.
Classified == alerts > 0 /\ call.risk_class \notin {NotBuilt, Raised}

BothInVocabulary ==
    /\ Classified
    /\ HasPrimary(call.prediction_data)
    /\ InVocabulary(Primary(call.prediction_data))
    /\ HasAdvisoryField(call.prediction_data)
    /\ InVocabulary(Advisory(call.prediction_data))

\* C7: when the payload carries a primary class and an advisory class of the
\* four-level vocabulary, the combined classification is a class of the
\* vocabulary whose severity is the maximum of the two severities.
C7_CombinedIsMax ==
    BothInVocabulary =>
        /\ InVocabulary(call.risk_class)
        /\ Severity(call.risk_class.s) =
               Max(Severity(Primary(call.prediction_data).s),
                   Severity(Advisory(call.prediction_data).s))

C7_Witness ==
    /\ BothInVocabulary
    /\ Primary(call.prediction_data) = JStr("Riesgo")
    /\ Advisory(call.prediction_data) = JStr("Severa")
    /\ call.risk_class = JStr("Severa")

\* C8: when the advisory classification is missing, None or empty, the
\* combined classification is the payload's primary class, whatever that
\* class is.
C8_NoAdvisoryKeepsPrimary ==
    (Classified /\ HasPrimary(call.prediction_data)
                /\ AdvisoryAbsent(call.prediction_data)) =>
        call.risk_class = Primary(call.prediction_data)

C8_Witness ==
    /\ Classified
    /\ HasAdvisoryField(call.prediction_data)
    /\ Advisory(call.prediction_data) = JStr("")
    /\ HasPrimary(call.prediction_data)
    /\ Primary(call.prediction_data) = JStr("Sin Riesgo")
    /\ call.risk_class = JStr("Sin Riesgo")

\* C9: for a primary class a and an advisory class b of the four-level
\* vocabulary, the combined classification of the call is the one the
\* reconciliation gives with the roles swapped (primary b, advisory a), also
\* when a and b are the same class.
C9_ReconcileCommutes ==
    BothInVocabulary =>
        call.risk_class = Reconcile(Advisory(call.prediction_data),
                                    Primary(call.prediction_data))

C9_Witness ==
    /\ BothInVocabulary
    /\ Primary(call.prediction_data) = JStr("Moderada")
    /\ Advisory(call.prediction_data) = JStr("Riesgo")
    /\ call.risk_class = JStr("Moderada")
    /\ Reconcile(JStr("Riesgo"), JStr("Moderada")) = JStr("Moderada")

\* The payload carries an available prediction.
IsAvailable(data) ==
    "prediction_available" \in DOMAIN data /\ data.prediction_available = JBool(TRUE)

NoSymbols(msg) == \A i \in 1..Len(msg.toks) : msg.toks[i].kind # "symbol"

\* C10: for an available prediction whose alert was handed to the transport,
\* the rich rendering was built; when it has at most 160 characters it is the
\* message sent and no plain rendering is built; when it has more than 160
\* characters the plain rendering is the message sent, and that rendering
\* holds no symbol.
C10_TierChoice ==
    (alerts > 0 /\ IsAvailable(call.prediction_data) /\ call.handed) =>
        /\ call.rich \notin {NotBuilt, Raised}
        /\ Length(call.rich) <= 160 =>
              /\ call.message = call.rich
              /\ call.plain = NotBuilt
              /\ call.tier = "rich"
        /\ Length(call.rich) > 160 =>
              /\ call.message = call.plain
              /\ call.tier = "plain"
              /\ NoSymbols(call.plain)

C10_Witness ==
    /\ alerts > 0
    /\ IsAvailable(call.prediction_data)
    /\ call.handed
    /\ Length(call.rich) = 161
    /\ ~NoSymbols(call.rich)
    /\ call.message = call.plain
    /\ NoSymbols(call.message)

\* C11: the alert text handed to the transport never has more than 1600
\* characters, whatever the payload.
C11_HardCeiling ==
    (alerts > 0 /\ call.handed) => Length(call.message) <= 1600

HasText(msg, text) == \E i \in 1..Len(msg.toks) : msg.toks[i] = Tok(text)

\* The rendering names the distance of the payload, in whole km, before
\* "km de estacion".
CarriesDistance(msg, data) ==
    \E i \in 1..(Len(msg.toks) - 1) :
        /\ msg.toks[i] = Tok(FmtDist(data.distance_from_station_km))
        /\ msg.toks[i + 1].s \in {"km de estacion\n",
                                  "km de estacion\nSolo valido en Junin\n"}

\* The rendering is one of the two forms of the out-of-coverage template.
IsUnavailableRich(msg) == HasText(msg, "C\nFuera de cobertura\n")
IsUnavailablePlain(msg) ==
    /\ HasText(msg, "C\nFUERA DE COBERTURA\n")
    /\ HasText(msg, "km de estacion\nSolo valido en Junin\n")

\* C12: an alert handed to the transport uses the out-of-coverage template
\* exactly when the payload's prediction_available is false or missing; its
\* rich form and its plain form both name the payload's distance and the
\* out-of-coverage explanation; the rich form is sent when it has at most 160
\* characters and the plain form when the rich form has more.
C12_UnavailableTemplate ==
    (alerts > 0 /\ call.handed) =>
        /\ IsUnavailableRich(call.rich) <=> ~IsAvailable(call.prediction_data)
        /\ ~IsAvailable(call.prediction_data) =>
              /\ "distance_from_station_km" \in DOMAIN call.prediction_data =>
                     CarriesDistance(call.message, call.prediction_data)
              /\ Length(call.rich) <= 160 =>
                     call.message = call.rich /\ call.plain = NotBuilt
              /\ Length(call.rich) > 160 =>
                     call.message = call.plain /\ IsUnavailablePlain(call.plain)

C12_Witness ==
    /\ alerts > 0
    /\ call.handed
    /\ ~IsAvailable(call.prediction_data)
    /\ "prediction_available" \notin DOMAIN call.prediction_data
    /\ Length(call.rich) > 160
    /\ CarriesDistance(call.rich, call.prediction_data)
    /\ call.message = call.plain
    /\ IsUnavailablePlain(call.message)

\* ------------------------------------------------ claims on the geofence
\* The step is the beginning of a request of worker w.
Begins(w) == started' = started + 1 /\ request'[w].id = started'

\* C13: a request with coordinates farther than 50 km from the station is
\* answered in the step that begins it, with status 200, prediction_available
\* false and reason out_of_coverage; the step leaves the history of every key
\* as it was, makes no weather fetch, and the handler never reaches the
\* classifier and the advisory.
C13_RejectionDoesNothingElse ==
    [][\A w \in Workers :
          (Begins(w) /\ ~NoCoords(request'[w].loc) /\ request'[w].loc.dist > 50) =>
              /\ response'[w].status = 200
              /\ ~response'[w].prediction_available
              /\ response'[w].reason = "out_of_coverage"
              /\ pc'[w] = "idle"
              /\ UNCHANGED <<weather_history, deques, log, fetches, clock>>]_vars

C13_Witness ==
    \E w \in Workers :
        /\ request[w].id = 2
        /\ request[w].loc.dist > 50
        /\ ~NoCoords(request[w].loc)
        /\ response[w].reason = "out_of_coverage"
        /\ pc[w] = "idle"
        /\ fetches = 1
        /\ \E k \in Keys : Len(History(k)) = 1

\* Worker w has begun a request that carries coordinates.
Located(w) == request[w].id > 0 /\ ~NoCoords(request[w].loc)

\* C14: a request is admitted exactly when its location is at most 50 km from
\* the station, a location at exactly 50 km included: the handler goes past
\* the geofence only for such a location, a response of status 200 says
\* prediction_available exactly for such a location, and it carries the
\* distance and a message.
C14_InclusiveRadius ==
    \A w \in Workers :
        Located(w) =>
            /\ pc[w] # "idle" => request[w].loc.dist <= 50
            /\ response[w].reason = "out_of_coverage" => request[w].loc.dist > 50
            /\ (pc[w] = "idle" /\ response[w].status = 200) =>
                  /\ response[w].prediction_available <=> request[w].loc.dist <= 50
                  /\ response[w].distance = request[w].loc.dist
                  /\ response[w].message # ""

C14_Witness ==
    \E w \in Workers :
        /\ Located(w)
        /\ request[w].loc.dist = 50
        /\ pc[w] = "idle"
        /\ response[w].status = 200
        /\ response[w].prediction_available
        /\ response[w].distance = 50

\* C15: in every state the history of every location is non-decreasing in
\* timestamp, from its oldest entry to its newest.
C15_TimestampMonotone ==
    \A k \in Keys :
        \A i \in 1..(Len(History(k)) - 1) :
            History(k)[i].timestamp <= History(k)[i + 1].timestamp

\* C16: when a request records its observation, the observation becomes the
\* newest entry of the history of the key its latitude and longitude quantize
\* to, and the history of every other key stays as it was.
C16_KeyPartition ==
    [][\A w \in Workers :
          (pc[w] = "store_append" /\ pc'[w] = "features") =>
              LET k == get_location_key(request[w].loc.lat, request[w].loc.lon)
              IN /\ Len(History(k)') > 0
                 /\ History(k)'[Len(History(k)')] = frame[w].entry
                 /\ \A other \in Keys \ {k} : History(other)' = History(other)]_vars

\* C17: when the history holds at least h entries, the observation the lag-h
\* features of a request are read from was recorded h hours before the
\* request's own observation, however many requests arrive within an hour.
C17_LagsAreHoursBack ==
    \A w \in Synthesized : \A i \in 1..Len(LagHours) :
        LET h == LagHours[i]
            f == frame[w]
        IN f.seen[h] >= h =>
              HourOf(f.entry.timestamp) - HourOf(f.from[h]) = h

\* A field the provider's reading does not give: the key is missing from the
\* dictionary, or it is there with None.
Absent(reading, field) == field \notin DOMAIN reading \/ reading[field] = None

\* The workers whose present-time features have been built.
WithFeatures == {w \in Workers : pc[w] \in {"lag_idx", "lag_read", "predict"}}

\* C18: a reading without humidity, irradiance or wind speed does not fail
\* the request; the present-time feature of the variable is the default
\* (humidity 50, irradiance 300, wind speed 0), and the observation stored
\* for the request is built with the same default.
C18_NeutralDefaults ==
    /\ \A w \in Workers : response[w].reason # "TypeError"
    /\ \A w \in WithFeatures :
          LET reading == frame[w].current_weather
              features == frame[w].features
          IN /\ Absent(reading, "humidity") =>
                    features["HR"] = 50 /\ frame[w].entry.HR = 50
             /\ Absent(reading, "radiation") =>
                    features["radinf"] = 300 /\ frame[w].entry.radinf = 300
             /\ Absent(reading, "wind_speed") =>
                    features["vel"] = 0 /\ frame[w].entry.vel = 0

\* The field of the provider's reading each base variable is computed from
\* (store_weather_data, lines 116-120).
ProviderField(var) ==
    CASE var = "HR" -> "humidity"
      [] var = "radinf" -> "radiation"
      [] var = "vel" -> "wind_speed"
      [] var \in {"dir_sin", "dir_cos"} -> "wind_direction"

\* C19: feature synthesis emits a feature vector only when the provider's
\* reading populates every base variable; a reading that cannot populate
\* one ends the request with an error, never with features holding a
\* substituted value.
C19_NoSubstitutedBaseVariable ==
    \A w \in WithFeatures : \A var \in BaseVars :
        ~Absent(frame[w].current_weather, ProviderField(var))

\* C20: when the keys of the feature vector synthesized for a request are not
\* exactly the classifier's feature_cols, the request ends in a failure and
\* its response reports no risk class as a prediction.
C20_SchemaMismatchFails ==
    [][\A w \in Workers :
          (/\ pc[w] = "predict" /\ pc'[w] = "idle"
           /\ model_package.loaded
           /\ DOMAIN frame[w].features # model_package.feature_cols) =>
              /\ response'[w].status # 200
              /\ ~response'[w].prediction_available
              /\ response'[w].ml = NoPrediction]_vars

\* C21: building the text of an alert, for any payload and in any tier, makes
\* no call of a collaborator: the weather service is never asked.
C21_RenderingIsPure == alerts > 0 => call.weather_calls = 0

Point(name) == CHOOSE p \in GeoPoints : p.name = name

\* Two points opposite each other on the globe.
Antipodal(p1, p2) ==
    p1.lat = -p2.lat /\ (p1.lon - p2.lon = 18000000 \/ p2.lon - p1.lon = 18000000)

\* C22: the distance from a point to itself is 0, the distance from A to B is
\* the distance from B to A, and for equal and for antipodal points the
\* computation ends with a distance, not with an error.
C22_Haversine ==
    measured # NoMeasure =>
        LET p1 == Point(measured.from)
            p2 == Point(measured.to)
        IN /\ p1 = p2 => measured.result = [t |-> "km", a |-> Zero]
           /\ measured.result = calculate_distance(p2, p1)
           /\ (p1 = p2 \/ Antipodal(p1, p2)) => measured.result.t = "km"

\* The texts send_frost_alert can send for a payload.
AlertTexts(data) ==
    {PredictionMessageMinimal(data), PredictionMessageNoEmoji(data)}
    \cup {UnavailableMessageMinimal(data, t) : t \in WeatherTemps}
    \cup {UnavailableMessageNoEmoji(data, t) : t \in WeatherTemps}

\* C23: a request to test-sms-length that carries a prediction_data is
\* answered with the alert text of that payload, its length, within_limit =
\* (length <= 1600) and estimated_segments = length \div 160 + 1.
C23_TestSmsLength ==
    (http.endpoint = "test-sms-length" /\ "prediction_data" \in DOMAIN http.data
        /\ http.data.prediction_data # EmptyDict) =>
        /\ http.status = 200
        /\ http.message \in AlertTexts(http.data.prediction_data)
        /\ http.length = Length(http.message)
        /\ http.within_limit <=> http.length <= 1600
        /\ http.estimated_segments = (http.length \div 160) + 1

\* The digits of the phone number of a body, none when it has no text.
DigitsOf(data) ==
    IF "phone_number" \in DOMAIN data /\ data.phone_number # JNone
    THEN SelectSeq(data.phone_number.s,
                   LAMBDA c : c \in {"0", "1", "2", "3", "4", "5", "6", "7", "8", "9"})
    ELSE <<>>

\* The request meets the three conditions of send-alert-sms.
Acceptable(data) ==
    /\ Len(DigitsOf(data)) = 9
    /\ "prediction_data" \in DOMAIN data
    /\ sms_initialized

\* C24: send-alert-sms makes a transport call only for a phone number of
\* exactly 9 digits, with prediction_data present and the service
\* initialized, and then to '+51' followed by the 9 digits; every other
\* request is answered 400 or 503 without a transport call; no request makes
\* more than one transport call.
C24_SendAlertSms ==
    http.endpoint = "send-alert-sms" =>
        /\ http.transport_calls <= 1
        /\ http.transport_calls = 1 =>
              /\ Acceptable(http.data)
              /\ http.to = <<"+", "5", "1">> \o DigitsOf(http.data)
        /\ ~Acceptable(http.data) =>
              /\ http.status \in {400, 503}
              /\ http.transport_calls = 0

\* C25: a prediction request that is answered with an error (status 500)
\* has recorded no observation: when it returns, the history holds no entry
\* of its own, and only requests that return a prediction record one.
C25_ErrorLeavesHistory ==
    [][\A w \in Workers :
          (/\ pc[w] # "idle" /\ pc'[w] = "idle"
           /\ ~(response'[w].status = 200 /\ response'[w].prediction_available)) =>
              frame[w].pos = 0]_vars

\* C26: the observation a request records has, for each of the five base
\* variables, the value of the request's present-time feature of that
\* variable.
C26_StoredIsPresentFeature ==
    \A w \in WithFeatures : \A v \in BaseVars :
        frame[w].entry[v] = frame[w].features[v]

\* C27: when the primary class of the payload is one of the four labels of
\* the vocabulary, the combined classification of the alert is one of the
\* four labels too, whatever the advisory classification is.
C27_CombinedInVocabulary ==
    (Classified /\ HasPrimary(call.prediction_data)
                /\ InVocabulary(Primary(call.prediction_data))) =>
        InVocabulary(call.risk_class)

\* C28: when the plain rendering is the one selected, because the rich
\* rendering has more than 160 characters, it has no more characters than the
\* rich rendering of the same payload.
C28_PlainNoLonger ==
    (alerts > 0 /\ call.tier = "plain") =>
        Length(call.plain) <= Length(call.rich)

\* The advisory analysis of the payload is one of the rule-based fallback.
FromFallbackRules(data) ==
    /\ "ai_analysis" \in DOMAIN data
    /\ data.ai_analysis # JNone
    /\ "nivel_riesgo_combinado" \in DOMAIN data.ai_analysis

\* C29: when the advisory analysis of the payload comes from the rule-based
\* fallback, the combined classification of the alert is the primary (ML)
\* class name, whatever risk level the fallback computed.
C29_FallbackLevelIgnored ==
    (Classified /\ FromFallbackRules(call.prediction_data)) =>
        call.risk_class = Primary(call.prediction_data)

\* An alert for a primary class "Sin Riesgo" with a fallback level "muy_alto".
C29_Witness ==
    /\ Classified
    /\ FromFallbackRules(call.prediction_data)
    /\ call.prediction_data.ai_analysis.nivel_riesgo_combinado = JStr("muy_alto")
    /\ Primary(call.prediction_data) = JStr("Sin Riesgo")
    /\ call.risk_class = JStr("Sin Riesgo")
    /\ call.handed

\* The call found an entry of its key saved less than 10 minutes before.
Fresh(c) == c.found # NoEntry /\ c.began - c.found.cached_time < 10

\* The calls that saved a result under key k.
Saves(k) == {j \in 1..Len(done) : done[j].key = k /\ done[j].saved}

NoErrorCached == \A k \in CacheKeys : ~cache[k].data.error

\* C30: a call that finds an entry of its key saved less than 10 minutes
\* before makes no fetch and returns the entry's data; every other call
\* fetches, and its result is saved exactly when it is no error; the entry of
\* a key is the result of the last call that saved one, with the time of
\* the save; the cache never holds an error.
C30_Cache ==
    /\ NoErrorCached
    /\ \A j \in 1..Len(done) :
          LET c == done[j]
          IN /\ Fresh(c) => ~c.fetched /\ c.result = c.found.data
             /\ ~Fresh(c) => c.fetched /\ (c.saved <=> ~c.result.error)
    /\ \A k \in CacheKeys :
          Saves(k) # {} =>
              LET last == CHOOSE j \in Saves(k) : \A i \in Saves(k) : i <= j
              IN cache[k] = [cached_time |-> done[last].ended, data |-> done[last].result]

\* A call served from the cache 5 minutes after the save, then a call that
\* finds the entry 10 minutes old, fetches and replaces it.
C30_Witness ==
    \E i, j \in 1..Len(done) :
        /\ i < j
        /\ done[i].key = done[j].key
        /\ done[i].found # NoEntry /\ done[i].began - done[i].found.cached_time = 5
        /\ ~done[i].fetched
        /\ done[j].found = done[i].found /\ done[j].began - done[j].found.cached_time = 10
        /\ done[j].fetched /\ done[j].saved
        /\ cache[done[j].key].data = done[j].result
        /\ done[j].result # done[i].result

\* C30 as stated: of two calls with the same arguments, the second begun
\* after the first returned and less than 10 minutes after it, the second
\* makes no fetch and returns the first call's result; a call that finds an
\* entry saved 10 minutes or more before fetches and replaces it; the cache
\* never holds an error.
C30_CacheAsStated ==
    /\ NoErrorCached
    /\ \A i, j \in 1..Len(done) :
          (/\ i <= done[j].after
           /\ done[i].key = done[j].key
           /\ done[j].began - done[i].began < 10) =>
              ~done[j].fetched /\ done[j].result = done[i].result
    /\ \A j \in 1..Len(done) :
          (done[j].found # NoEntry /\ ~Fresh(done[j])) =>
              done[j].fetched /\ done[j].saved

====
